---------------------------- MODULE Spec2Model ----------------------------
(***************************************************************************)
(* A model of github.com/yasufadhili/vfs: the bundled registry             *)
(* (bundled.go), the unified facade (main.go, vfs.go) and the call surface *)
(* of the watch subsystem (watch.go).                                      *)
(*                                                                         *)
(* Strings are sequences of one-character strings, so that the path        *)
(* functions of the Go standard library (strings.HasPrefix,                *)
(* strings.TrimPrefix, filepath.Clean, filepath.Join, filepath.Dir,        *)
(* filepath.IsAbs) are computed character by character as Go computes      *)
(* them.                                                                   *)
(***************************************************************************)
EXTENDS Naturals, Sequences, FiniteSets, TLC

\* F applied to the value of x, with x evaluated once (a Go local variable
\* holding the result of a call).
Then(x, F(_)) == CHOOSE out \in {F(v) : v \in {x}} : TRUE

(***************************************************************************)
(* Strings                                                                 *)
(***************************************************************************)

\* The separator sentinel Register appends to a prefix.
Sentinel == <<":", "/", "/">>

Slash == <<"/">>

Dot == <<".">>

DotDot == <<".", ".">>

\* strings.HasPrefix(s, prefix)
HasPrefix(s, prefix) ==
    /\ Len(prefix) <= Len(s)
    /\ \A k \in 1..Len(prefix) : s[k] = prefix[k]

\* strings.HasSuffix(s, suffix)
HasSuffix(s, suffix) ==
    /\ Len(suffix) <= Len(s)
    /\ \A k \in 1..Len(suffix) : s[Len(s) - Len(suffix) + k] = suffix[k]

\* strings.TrimPrefix(s, prefix)
TrimPrefix(s, prefix) ==
    IF HasPrefix(s, prefix) THEN SubSeq(s, Len(prefix) + 1, Len(s)) ELSE s

\* strings.TrimSuffix(s, suffix)
TrimSuffix(s, suffix) ==
    IF HasSuffix(s, suffix) THEN SubSeq(s, 1, Len(s) - Len(suffix)) ELSE s

(***************************************************************************)
(* path/filepath (Unix)                                                    *)
(***************************************************************************)

\* The elements of s between separators, empty elements included.
RECURSIVE SplitFrom(_, _, _, _)
SplitFrom(s, k, cur, acc) ==
    IF k > Len(s) THEN Append(acc, cur)
    ELSE IF s[k] = "/" THEN SplitFrom(s, k + 1, <<>>, Append(acc, cur))
    ELSE SplitFrom(s, k + 1, Append(cur, s[k]), acc)

SplitPath(s) == SplitFrom(s, 1, <<>>, <<>>)

\* The elements joined by single separators.
RECURSIVE JoinElems(_)
JoinElems(elems) ==
    IF elems = <<>> THEN <<>>
    ELSE IF Len(elems) = 1 THEN elems[1]
    ELSE elems[1] \o Slash \o JoinElems(Tail(elems))

\* The element stack of filepath.Clean: empty and "." elements are dropped,
\* ".." removes the element before it, is dropped at the root of a rooted
\* path and is kept at the start of a relative one.
RECURSIVE CleanStack(_, _, _, _)
CleanStack(elems, rooted, k, stack) ==
    IF k > Len(elems) THEN stack
    ELSE LET e == elems[k] IN
         IF e = <<>> \/ e = Dot THEN CleanStack(elems, rooted, k + 1, stack)
         ELSE IF e = DotDot
              THEN IF stack # <<>> /\ stack[Len(stack)] # DotDot
                   THEN CleanStack(elems, rooted, k + 1,
                                   SubSeq(stack, 1, Len(stack) - 1))
                   ELSE IF rooted
                        THEN CleanStack(elems, rooted, k + 1, stack)
                        ELSE CleanStack(elems, rooted, k + 1, Append(stack, e))
              ELSE CleanStack(elems, rooted, k + 1, Append(stack, e))

\* filepath.IsAbs(path)
IsAbs(path) == HasPrefix(path, Slash)

\* filepath.Clean(path)
Clean(path) ==
    IF path = <<>> THEN Dot
    ELSE LET rooted == IsAbs(path)
             body   == JoinElems(CleanStack(SplitPath(path), rooted, 1, <<>>))
             out    == IF rooted THEN Slash \o body ELSE body
         IN  IF out = <<>> THEN Dot ELSE out

\* filepath.Join(a, b): empty elements are ignored, the rest is joined by
\* separators and cleaned.
Join(a, b) ==
    IF a = <<>> /\ b = <<>> THEN <<>>
    ELSE IF a = <<>> THEN Clean(b)
    ELSE Clean(a \o Slash \o b)

\* Index of the last separator of path, 0 when there is none.
RECURSIVE LastSlash(_, _)
LastSlash(path, k) ==
    IF k = 0 THEN 0
    ELSE IF path[k] = "/" THEN k
    ELSE LastSlash(path, k - 1)

\* filepath.Dir(path)
Dir(path) == Clean(SubSeq(path, 1, LastSlash(path, Len(path))))

\* filepath.Base(path) of a cleaned path
Base(path) ==
    IF path = <<>> THEN Dot
    ELSE IF path = Slash THEN Slash
    ELSE SubSeq(path, LastSlash(path, Len(path)) + 1, Len(path))

(***************************************************************************)
(* Results.  An error is a string, ErrNil for Go's nil; file contents are   *)
(* tokens 1, 2, ..., NoData for the nil slice an operation returns with an  *)
(* error.                                                                  *)
(***************************************************************************)

ErrNil == "nil"

\* fmt.Errorf("cannot ... bundled URL: %s", path)
ErrReadOnly == "read-only bundled URL"

\* fmt.Errorf("watching is only available for disk-based VFS")
ErrNoWatch == "watching is only available for disk-based VFS"

\* fmt.Errorf("watch manager is not available")
ErrUnavailable == "watch manager is not available"

\* fmt.Errorf("failed to watch path %s: %w", path, err)
ErrWatchFailed == "failed to watch path"

\* Errors of the stores and of the archive reader (fs.PathError causes).
ErrNotExist == "file does not exist"

ErrIsDir == "is a directory"

ErrNotDir == "not a directory"

ErrNotEmpty == "directory not empty"

ErrInvalid == "invalid argument"

NoData == 0

(***************************************************************************)
(* The embedded archives (embed.FS): read-only trees, fixed at build time.  *)
(* Names are slash-separated, unrooted, "." is the root (io/fs).            *)
(***************************************************************************)

Archives == {"A", "B"}

\* The files of an archive: name -> contents.
ArchiveFiles(a) ==
    IF a = "A"
    THEN (<<"a">> :> 7) @@ (<<"l", "/", "a">> :> 8)
    ELSE (<<"a">> :> 9)

\* The directories of an archive.
ArchiveDirs(a) == IF a = "A" THEN {Dot, <<"l">>} ELSE {Dot}

\* fs.ValidPath(name)
ValidPath(name) ==
    \/ name = Dot
    \/ /\ name # <<>>
       /\ \A k \in 1..Len(SplitPath(name)) :
              SplitPath(name)[k] \notin {<<>>, Dot, DotDot}

\* fs.ReadFile(embedFS, name)
EmbedReadFile(a, name) ==
    IF ~ValidPath(name) THEN [data |-> NoData, err |-> ErrInvalid]
    ELSE IF name \in DOMAIN ArchiveFiles(a)
         THEN [data |-> ArchiveFiles(a)[name], err |-> ErrNil]
    ELSE IF name \in ArchiveDirs(a) THEN [data |-> NoData, err |-> ErrIsDir]
    ELSE [data |-> NoData, err |-> ErrNotExist]

\* fs.Stat(embedFS, name)
EmbedStat(a, name) ==
    IF ~ValidPath(name) THEN [isDir |-> FALSE, err |-> ErrInvalid]
    ELSE IF name \in DOMAIN ArchiveFiles(a) THEN [isDir |-> FALSE, err |-> ErrNil]
    ELSE IF name \in ArchiveDirs(a) THEN [isDir |-> TRUE, err |-> ErrNil]
    ELSE [isDir |-> FALSE, err |-> ErrNotExist]

\* The entries of directory name of an archive, as full names.
EmbedChildren(a, name) ==
    {n \in (DOMAIN ArchiveFiles(a)) \cup (ArchiveDirs(a) \ {Dot}) :
        IF name = Dot THEN LastSlash(n, Len(n)) = 0
        ELSE HasPrefix(n, name \o Slash)
             /\ LastSlash(n, Len(n)) = Len(name) + 1}

\* fs.ReadDir(embedFS, name): the base names of the files (wantDirs FALSE)
\* or of the directories (wantDirs TRUE) among the entries.
EmbedReadDir(a, name, wantDirs) ==
    IF ~ValidPath(name) THEN [names |-> {}, err |-> ErrInvalid]
    ELSE IF name \in DOMAIN ArchiveFiles(a) THEN [names |-> {}, err |-> ErrNotDir]
    ELSE IF name \notin ArchiveDirs(a) THEN [names |-> {}, err |-> ErrNotExist]
    ELSE [names |-> {Base(n) : n \in {m \in EmbedChildren(a, name) :
                                        (m \in ArchiveDirs(a)) = wantDirs}},
          err |-> ErrNil]

(***************************************************************************)
(* BundledManager and BundledFS (bundled.go)                               *)
(***************************************************************************)

\* NewBundledManager: the empty prefix map.
NewBundledManager == << >>

\* The map key Register stores a prefix under.
RegisterKey(prefix) ==
    IF HasSuffix(prefix, Sentinel) THEN prefix ELSE prefix \o Sentinel

\* BundledManager.Register as it would be if it stored the entry under the
\* prefix as given, without appending the sentinel it lacks.
RegisterAsGiven(bundled, prefix, embedFS, subdir) ==
    LET entry == [embedFS |-> embedFS,
                  prefix  |-> TrimSuffix(prefix, Sentinel),
                  subdir  |-> subdir]
    IN  [k \in (DOMAIN bundled) \cup {prefix} |->
            IF k = prefix THEN entry ELSE bundled[k]]

\* BundledManager.Register: bm.bundled[prefix] = bundled
Register(bundled, prefix, embedFS, subdir) ==
    LET key   == RegisterKey(prefix)
        entry == [embedFS |-> embedFS,
                  prefix  |-> TrimSuffix(key, Sentinel),
                  subdir  |-> subdir]
    IN  [k \in (DOMAIN bundled) \cup {key} |->
            IF k = key THEN entry ELSE bundled[k]]

\* The keys of the map that are a prefix of path.
MatchingKeys(bundled, path) == {k \in DOMAIN bundled : HasPrefix(path, k)}

NotFound == [ok |-> FALSE, key |-> <<>>, rest |-> <<>>]

\* BundledManager.GetBundledFS as it would be if it stripped the registered
\* name and left the sentinel on the remainder.
GetBundledFSKeepingSentinel(bundled, path) ==
    IF MatchingKeys(bundled, path) = {} THEN {NotFound}
    ELSE {[ok |-> TRUE, key |-> k,
           rest |-> TrimPrefix(path, TrimSuffix(k, Sentinel))] :
            k \in MatchingKeys(bundled, path)}

\* BundledManager.GetBundledFS as it would be if it returned the longest
\* matching key in place of the first one the range over the map meets.
GetBundledFSLongest(bundled, path) ==
    IF MatchingKeys(bundled, path) = {} THEN {NotFound}
    ELSE {[ok |-> TRUE, key |-> k, rest |-> TrimPrefix(path, k)] :
            k \in {m \in MatchingKeys(bundled, path) :
                     \A o \in MatchingKeys(bundled, path) : Len(o) <= Len(m)}}

\* BundledManager.GetBundledFS: the results the call can return.  The loop
\* ranges over a Go map, whose iteration order is unspecified, and returns
\* at the first matching key: any matching key can be that one.
GetBundledFS(bundled, path) ==
    IF MatchingKeys(bundled, path) = {} THEN {NotFound}
    ELSE {[ok |-> TRUE, key |-> k, rest |-> TrimPrefix(path, k)] :
            k \in MatchingKeys(bundled, path)}

\* BundledManager.IsBundledPath
IsBundledPath(bundled, path) ==
    \E k \in DOMAIN bundled : HasPrefix(path, k)

\* BundledManager.ListRegistered, as the set of the returned names.
ListRegistered(bundled) == {TrimSuffix(k, Sentinel) : k \in DOMAIN bundled}

\* BundledManager.ListRegistered: the slices the call can return, one element
\* for each key of the map, in any order the range over the map can take.
ListRegisteredSlices(bundled) ==
    LET n      == Cardinality(DOMAIN bundled)
        orders == {o \in [1..n -> DOMAIN bundled] :
                     \A a, b \in 1..n : a # b => o[a] # o[b]}
    IN  {[k \in 1..n |-> TrimSuffix(o[k], Sentinel)] : o \in orders}

\* BundledFS.getFullPath
getFullPath(b, path) ==
    IF b.subdir = <<>> THEN path ELSE Join(b.subdir, path)

\* BundledFS.getOriginalPath
getOriginalPath(b, fullPath) ==
    IF b.subdir = <<>> THEN fullPath
    ELSE TrimPrefix(fullPath, b.subdir \o Slash)

\* BundledFS.ReadFile
BundledReadFile(b, path) == EmbedReadFile(b.embedFS, getFullPath(b, path))

\* BundledFS.Stat
BundledStat(b, path) == EmbedStat(b.embedFS, getFullPath(b, path))

\* BundledFS.Exists
BundledExists(b, path) == BundledStat(b, path).err = ErrNil

\* BundledFS.IsDir
BundledIsDir(b, path) ==
    BundledStat(b, path).err = ErrNil /\ BundledStat(b, path).isDir

\* BundledFS.ListFiles
BundledListFiles(b, path) ==
    EmbedReadDir(b.embedFS, getFullPath(b, path), FALSE)

\* BundledFS.ListDirs
BundledListDirs(b, path) ==
    EmbedReadDir(b.embedFS, getFullPath(b, path), TRUE)

(***************************************************************************)
(* The backing store (afero.Fs: MemMapFs, or BasePathFs over the OS).  A    *)
(* store is a function from the cleaned absolute name of each entry to     *)
(* [dir, data]; the root always exists.  The store cleans every name it is *)
(* given, and refuses an operation that takes a file for a directory or a  *)
(* directory for a file.                                                   *)
(***************************************************************************)

\* afero.NewMemMapFs(), or the empty root directory of a disk store.
NewFs == Slash :> [dir |-> TRUE, data |-> NoData]

\* The name the store files an entry under.
StoreKey(name) ==
    LET c == Clean(name) IN IF c = Dot \/ c = DotDot THEN Slash ELSE c

\* The proper ancestors of a cleaned absolute name, the root included.
RECURSIVE Ancestors(_)
Ancestors(key) ==
    IF key = Slash \/ ~IsAbs(key) THEN {}
    ELSE {Dir(key)} \cup Ancestors(Dir(key))

\* The entries strictly below key.
Below(fs, key) == {k \in DOMAIN fs : k # key /\ key \in Ancestors(k)}

\* afero.Afero.ReadFile(name)
StoreReadFile(fs, name) ==
    LET key == StoreKey(name) IN
    IF key \notin DOMAIN fs THEN [data |-> NoData, err |-> ErrNotExist]
    ELSE IF fs[key].dir THEN [data |-> NoData, err |-> ErrIsDir]
    ELSE [data |-> fs[key].data, err |-> ErrNil]

\* afero.Afero.Stat(name)
StoreStat(fs, name) ==
    LET key == StoreKey(name) IN
    IF key \notin DOMAIN fs THEN [isDir |-> FALSE, err |-> ErrNotExist]
    ELSE [isDir |-> fs[key].dir, err |-> ErrNil]

\* afero.Afero.Exists(name)
StoreExists(fs, name) == StoreKey(name) \in DOMAIN fs

\* afero.ReadDir(fs, name): the base names of the files (wantDirs FALSE) or
\* of the directories (wantDirs TRUE) directly in the directory.
StoreReadDir(fs, name, wantDirs) ==
    LET key == StoreKey(name) IN
    IF key \notin DOMAIN fs THEN [names |-> {}, err |-> ErrNotExist]
    ELSE IF ~fs[key].dir THEN [names |-> {}, err |-> ErrNotDir]
    ELSE [names |-> {Base(k) : k \in {m \in DOMAIN fs :
                        m # Slash /\ Dir(m) = key /\ fs[m].dir = wantDirs}},
          err |-> ErrNil]

\* afero.Afero.MkdirAll(name, perm)
StoreMkdirAll(fs, name) ==
    LET key  == StoreKey(name)
        path == {key} \cup Ancestors(key)
    IN  IF \E k \in path : k \in DOMAIN fs /\ ~fs[k].dir
        THEN [fs |-> fs, err |-> ErrNotDir]
        ELSE [fs  |-> [k \in (DOMAIN fs) \cup path |->
                         IF k \in DOMAIN fs THEN fs[k]
                         ELSE [dir |-> TRUE, data |-> NoData]],
              err |-> ErrNil]

\* afero.Afero.WriteFile(name, data, perm)
StoreWriteFile(fs, name, data) ==
    LET key == StoreKey(name) IN
    IF key \in DOMAIN fs /\ fs[key].dir THEN [fs |-> fs, err |-> ErrIsDir]
    ELSE IF Dir(key) \notin DOMAIN fs THEN [fs |-> fs, err |-> ErrNotExist]
    ELSE IF ~fs[Dir(key)].dir THEN [fs |-> fs, err |-> ErrNotDir]
    ELSE [fs  |-> [k \in (DOMAIN fs) \cup {key} |->
                     IF k = key THEN [dir |-> FALSE, data |-> data] ELSE fs[k]],
          err |-> ErrNil]

\* afero.Afero.Remove(name)
StoreRemove(fs, name) ==
    LET key == StoreKey(name) IN
    IF key \notin DOMAIN fs THEN [fs |-> fs, err |-> ErrNotExist]
    ELSE IF key = Slash \/ Below(fs, key) # {} THEN [fs |-> fs, err |-> ErrNotEmpty]
    ELSE [fs |-> [k \in (DOMAIN fs) \ {key} |-> fs[k]], err |-> ErrNil]

\* afero.Afero.RemoveAll(name): no error when there is nothing to remove;
\* the root itself stays.
StoreRemoveAll(fs, name) ==
    LET key  == StoreKey(name)
        gone == Below(fs, key) \cup (IF key = Slash THEN {} ELSE {key})
    IN  [fs |-> [k \in (DOMAIN fs) \ gone |-> fs[k]], err |-> ErrNil]

\* The byte order of the characters of the names (ASCII).
Ord(c) ==
    CASE c = "." -> 46
      [] c = "*" -> 42
      [] c = "/" -> 47
      [] c = ":" -> 58
      [] c = "a" -> 97
      [] c = "b" -> 98
      [] c = "d" -> 100
      [] c = "l" -> 108
      [] c = "x" -> 120
      [] c = "y" -> 121
      [] OTHER -> 127

\* s < t in Go's string order.
RECURSIVE StrLess(_, _)
StrLess(s, t) ==
    IF t = <<>> THEN FALSE
    ELSE IF s = <<>> THEN TRUE
    ELSE IF s[1] = t[1] THEN StrLess(Tail(s), Tail(t))
    ELSE Ord(s[1]) < Ord(t[1])

\* A finite set of strings as the sorted sequence (sort.Strings).
RECURSIVE Sorted(_)
Sorted(S) ==
    IF S = {} THEN <<>>
    ELSE LET m == CHOOSE x \in S : \A y \in S \ {x} : StrLess(x, y)
         IN  <<m>> \o Sorted(S \ {m})

\* afero.Walk(fs, root, walkFn) with a walkFn that returns nil: the names
\* visited, in order: a directory, then its entries in the order of their
\* names, each with what lies below it.
RECURSIVE WalkFrom(_, _)
RECURSIVE WalkEach(_, _)
WalkFrom(fs, key) ==
    IF ~fs[key].dir THEN <<key>>
    ELSE <<key>> \o WalkEach(fs, Sorted({k \in DOMAIN fs :
                                           k # Slash /\ Dir(k) = key}))

WalkEach(fs, keys) ==
    IF keys = <<>> THEN <<>>
    ELSE WalkFrom(fs, keys[1]) \o WalkEach(fs, Tail(keys))

\* The names afero.Walk visits from root; none when root does not exist
\* (walkFn is then called once with the error).
StoreWalk(fs, root) ==
    IF StoreKey(root) \in DOMAIN fs THEN WalkFrom(fs, StoreKey(root)) ELSE <<>>

(***************************************************************************)
(* The facade (main.go).  Each operation is given the prefix map of the     *)
(* instance's BundledManager and the instance's store; a reading operation *)
(* is also given r, the result its GetBundledFS call returned.             *)
(***************************************************************************)

\* VFS.normalizePath as it would be if it joined every path that is not
\* bundled onto the root, absolute or not.
normalizePathJoiningAll(bundled, path) ==
    IF IsBundledPath(bundled, path) THEN path ELSE Join(Slash, path)

\* VFS.normalizePath
normalizePath(bundled, path) ==
    IF IsBundledPath(bundled, path) THEN path
    ELSE IF ~IsAbs(path) THEN Join(Slash, path)
    ELSE path

\* VFS.ReadFile as it would be if it tried the store before the registry.
VfsReadFileStoreFirst(bundled, fs, filename, r) ==
    LET stored == StoreReadFile(fs, Join(Slash, filename)) IN
    IF stored.err = ErrNil THEN stored
    ELSE IF r.ok THEN BundledReadFile(bundled[r.key], r.rest)
    ELSE StoreReadFile(fs, normalizePath(bundled, filename))

\* VFS.ReadFile
VfsReadFile(bundled, fs, filename, r) ==
    IF r.ok THEN BundledReadFile(bundled[r.key], r.rest)
    ELSE StoreReadFile(fs, normalizePath(bundled, filename))

\* VFS.Exists
VfsExists(bundled, fs, path, r) ==
    IF r.ok THEN BundledExists(bundled[r.key], r.rest)
    ELSE StoreExists(fs, normalizePath(bundled, path))

\* VFS.IsDir
VfsIsDir(bundled, fs, path, r) ==
    IF r.ok THEN BundledIsDir(bundled[r.key], r.rest)
    ELSE LET info == StoreStat(fs, normalizePath(bundled, path))
         IN  info.err = ErrNil /\ info.isDir

\* VFS.Stat
VfsStat(bundled, fs, path, r) ==
    IF r.ok THEN BundledStat(bundled[r.key], r.rest)
    ELSE StoreStat(fs, normalizePath(bundled, path))

\* VFS.ListFiles
VfsListFiles(bundled, fs, dir, r) ==
    IF r.ok THEN BundledListFiles(bundled[r.key], r.rest)
    ELSE StoreReadDir(fs, normalizePath(bundled, dir), FALSE)

\* VFS.ListDirs
VfsListDirs(bundled, fs, dir, r) ==
    IF r.ok THEN BundledListDirs(bundled[r.key], r.rest)
    ELSE StoreReadDir(fs, normalizePath(bundled, dir), TRUE)

\* fs.WalkDir(embedFS, root, fn): the names visited, in lexical order.
RECURSIVE EmbedWalkFrom(_, _)
RECURSIVE EmbedWalkEach(_, _)
EmbedWalkFrom(a, name) ==
    IF name \notin ArchiveDirs(a) THEN <<name>>
    ELSE <<name>> \o EmbedWalkEach(a, Sorted(EmbedChildren(a, name)))

EmbedWalkEach(a, names) ==
    IF names = <<>> THEN <<>>
    ELSE EmbedWalkFrom(a, names[1]) \o EmbedWalkEach(a, Tail(names))

\* BundledFS.Walk with a walkFn that returns its error argument: the names
\* passed to walkFn, each rewritten to the bundled URL, and the error of the
\* root when the archive cannot stat it.
BundledWalk(b, root) ==
    LET fullRoot == getFullPath(b, root)
        st       == EmbedStat(b.embedFS, fullRoot)
        visited  == EmbedWalkFrom(b.embedFS, fullRoot)
    IN  IF st.err # ErrNil THEN [visited |-> <<>>, err |-> st.err]
        ELSE [visited |-> [k \in 1..Len(visited) |->
                              b.prefix \o Sentinel \o getOriginalPath(b, visited[k])],
              err |-> ErrNil]

\* VFS.Walk with a walkFn that returns its error argument.
VfsWalk(bundled, fs, root, r) ==
    IF r.ok THEN BundledWalk(bundled[r.key], r.rest)
    ELSE LET vfsRoot == normalizePath(bundled, root) IN
         IF StoreExists(fs, vfsRoot)
         THEN [visited |-> StoreWalk(fs, vfsRoot), err |-> ErrNil]
         ELSE [visited |-> <<>>, err |-> ErrNotExist]

\* VFS.WriteFile as it would be without the IsBundledPath check at its head.
VfsWriteFileUnchecked(bundled, fs, filename, data) ==
    Then(normalizePath(bundled, filename), LAMBDA vfsPath :
    Then(StoreMkdirAll(fs, Dir(vfsPath)), LAMBDA mk :
         IF mk.err # ErrNil THEN mk
         ELSE StoreWriteFile(mk.fs, vfsPath, data)))

\* VFS.WriteFile
VfsWriteFile(bundled, fs, filename, data) ==
    IF IsBundledPath(bundled, filename) THEN [fs |-> fs, err |-> ErrReadOnly]
    ELSE Then(normalizePath(bundled, filename), LAMBDA vfsPath :
         Then(StoreMkdirAll(fs, Dir(vfsPath)), LAMBDA mk :
              IF mk.err # ErrNil THEN mk
              ELSE StoreWriteFile(mk.fs, vfsPath, data)))

\* VFS.MkdirAll
VfsMkdirAll(bundled, fs, path) ==
    IF IsBundledPath(bundled, path) THEN [fs |-> fs, err |-> ErrReadOnly]
    ELSE StoreMkdirAll(fs, normalizePath(bundled, path))

\* VFS.Remove
VfsRemove(bundled, fs, path) ==
    IF IsBundledPath(bundled, path) THEN [fs |-> fs, err |-> ErrReadOnly]
    ELSE StoreRemove(fs, normalizePath(bundled, path))

\* VFS.RemoveAll
VfsRemoveAll(bundled, fs, path) ==
    IF IsBundledPath(bundled, path) THEN [fs |-> fs, err |-> ErrReadOnly]
    ELSE StoreRemoveAll(fs, normalizePath(bundled, path))

\* VFS.Create: an empty file at the path (an existing file is truncated).
VfsCreate(bundled, fs, path) ==
    IF IsBundledPath(bundled, path) THEN [fs |-> fs, err |-> ErrReadOnly]
    ELSE StoreWriteFile(fs, normalizePath(bundled, path), NoData)

\* VFS.Copy; r1 and r2 are the results of the GetBundledFS calls of its
\* ReadFile and its Stat.
VfsCopy(bundled, fs, src, dst, r1, r2) ==
    Then(VfsReadFile(bundled, fs, src, r1), LAMBDA rd :
    Then(VfsStat(bundled, fs, src, r2), LAMBDA st :
         IF rd.err # ErrNil THEN [fs |-> fs, err |-> rd.err]
         ELSE IF st.err # ErrNil THEN [fs |-> fs, err |-> st.err]
         ELSE VfsWriteFile(bundled, fs, dst, rd.data)))

\* VFS.Move as it would be if it took the copy back when Remove fails.
VfsMoveRollingBack(bundled, fs, src, dst, r1, r2) ==
    Then(VfsCopy(bundled, fs, src, dst, r1, r2), LAMBDA cp :
         IF cp.err # ErrNil THEN cp
         ELSE Then(VfsRemove(bundled, cp.fs, src), LAMBDA rm :
                   IF rm.err # ErrNil THEN [fs |-> fs, err |-> rm.err]
                   ELSE rm))

\* VFS.Move
VfsMove(bundled, fs, src, dst, r1, r2) ==
    Then(VfsCopy(bundled, fs, src, dst, r1, r2), LAMBDA cp :
         IF cp.err # ErrNil THEN cp ELSE VfsRemove(bundled, cp.fs, src))

\* The GetBundledFS result for a name a walk of a store passed to walkFn.
WalkedLookup(bundled, path) == CHOOSE r \in GetBundledFS(bundled, path) : TRUE

\* The walkFn of VFS.Merge as it would be if it wrote each file at the path
\* it has in other, leaving destPath out.
MergeFileAtRoot(bundled, fs, otherBundled, otherFs, destPath, path) ==
    IF otherFs[path].dir THEN [fs |-> fs, err |-> ErrNil]
    ELSE Then(VfsReadFile(otherBundled, otherFs, path,
                          WalkedLookup(otherBundled, path)), LAMBDA rd :
         IF rd.err # ErrNil THEN [fs |-> fs, err |-> rd.err]
         ELSE Then(Join(Slash, TrimPrefix(path, Slash)), LAMBDA mergePath :
              Then(VfsMkdirAll(bundled, fs, Dir(mergePath)), LAMBDA mk :
                   IF mk.err # ErrNil THEN mk
                   ELSE VfsWriteFile(bundled, mk.fs, mergePath, rd.data))))

\* The walkFn of VFS.Merge applied to one name the walk of other visits:
\* the store of v after it, and the error it returns.
MergeFile(bundled, fs, otherBundled, otherFs, destPath, path) ==
    IF otherFs[path].dir THEN [fs |-> fs, err |-> ErrNil]
    ELSE Then(VfsReadFile(otherBundled, otherFs, path,
                          WalkedLookup(otherBundled, path)), LAMBDA rd :
         IF rd.err # ErrNil THEN [fs |-> fs, err |-> rd.err]
         ELSE Then(Join(destPath, TrimPrefix(path, Slash)), LAMBDA mergePath :
              Then(VfsMkdirAll(bundled, fs, Dir(mergePath)), LAMBDA mk :
                   IF mk.err # ErrNil THEN mk
                   ELSE VfsWriteFile(bundled, mk.fs, mergePath, rd.data))))

\* The walk of VFS.Merge from visited[k] on: it stops at the first error.
RECURSIVE MergeWalk(_, _, _, _, _, _, _)
MergeWalk(bundled, fs, otherBundled, otherFs, destPath, visited, k) ==
    IF k > Len(visited) THEN [fs |-> fs, err |-> ErrNil]
    ELSE Then(MergeFile(bundled, fs, otherBundled, otherFs, destPath, visited[k]),
              LAMBDA step :
              IF step.err # ErrNil THEN step
              ELSE MergeWalk(bundled, step.fs, otherBundled, otherFs,
                             destPath, visited, k + 1))

\* VFS.Merge
VfsMerge(bundled, fs, otherBundled, otherFs, destPath) ==
    MergeWalk(bundled, fs, otherBundled, otherFs, destPath,
              StoreWalk(otherFs, Slash), 1)

\* The walkFn of VFS.Clone as it would be if it made in the clone every
\* directory the walk visits.
CloneFileWithDirs(bundled, fs, cloneFs, path) ==
    IF IsBundledPath(bundled, path) THEN [fs |-> cloneFs, err |-> ErrNil]
    ELSE IF fs[path].dir THEN VfsMkdirAll(bundled, cloneFs, path)
    ELSE Then(VfsReadFile(bundled, fs, path, WalkedLookup(bundled, path)),
              LAMBDA rd :
              IF rd.err # ErrNil THEN [fs |-> cloneFs, err |-> rd.err]
              ELSE VfsWriteFile(bundled, cloneFs, path, rd.data))

\* The walkFn of VFS.Clone applied to one name the walk of the original
\* visits: the store of the clone after it, and the error it returns.
CloneFile(bundled, fs, cloneFs, path) ==
    IF fs[path].dir \/ IsBundledPath(bundled, path)
    THEN [fs |-> cloneFs, err |-> ErrNil]
    ELSE Then(VfsReadFile(bundled, fs, path, WalkedLookup(bundled, path)),
              LAMBDA rd :
              IF rd.err # ErrNil THEN [fs |-> cloneFs, err |-> rd.err]
              ELSE VfsWriteFile(bundled, cloneFs, path, rd.data))

\* The walk of VFS.Clone from visited[k] on: the store of the clone.  The
\* walk stops at the first error, which Clone drops.
RECURSIVE CloneWalk(_, _, _, _, _)
CloneWalk(bundled, fs, cloneFs, visited, k) ==
    IF k > Len(visited) THEN cloneFs
    ELSE Then(CloneFile(bundled, fs, cloneFs, visited[k]), LAMBDA step :
              IF step.err # ErrNil THEN step.fs
              ELSE CloneWalk(bundled, fs, step.fs, visited, k + 1))

\* The store VFS.Clone gives the clone: a new memory store with the files of
\* the original written into it.
CloneFs(bundled, fs) == CloneWalk(bundled, fs, NewFs, StoreWalk(fs, Slash), 1)

(***************************************************************************)
(* The watch manager (watch.go), at the granularity of its calls.  watches  *)
(* is the set of the keys of the pattern-to-callback map, native the set of *)
(* disk paths registered with the fsnotify watcher.                        *)
(***************************************************************************)

\* The root directory of a disk instance (NewDiskVFS's rootPath, cleaned).
RootPath == <<"r">>

\* The disk path Watch and StopWatch give the native watcher for a pattern.
WatchDiskPath(rootPath, path) ==
    IF path = Slash THEN rootPath
    ELSE Join(rootPath, TrimPrefix(path, Slash))

\* The disk path StopAllWatches gives the native watcher for a pattern.
StopAllDiskPath(rootPath, path) == Join(rootPath, TrimPrefix(path, Slash))

\* Whether a disk path names an entry of the disk store rooted at rootPath
\* (fsnotify can only observe a path that exists).
DiskPathExists(fs, rootPath, diskPath) ==
    \/ diskPath = rootPath
    \/ /\ HasPrefix(diskPath, rootPath \o Slash)
       /\ TrimPrefix(diskPath, rootPath) \in DOMAIN fs

\* NewWatchManager, when fsnotify.NewWatcher succeeds.
\* closing counts the Close calls in flight (those that passed the check of
\* closed and wait for the lock, and those that set closed and have yet to
\* close the fsnotify watcher); released counts the calls of watcher.Close.
\* events and errors are what the fsnotify watcher has to deliver on its
\* Events and Errors channels, emitted the number of them so far; loop is
\* the position of processEvents, rlocks the read locks held on mu, errID
\* the native error being broadcast, todo the patterns the range over the map
\* has yet to visit, calls the callback invocations made, faults the number
\* of them in which the callback did anything but return.
NewWatchManager(rootPath) ==
    [closed |-> FALSE, watches |-> {}, native |-> {}, rootPath |-> rootPath,
     watcherClosed |-> FALSE,
     closing |-> [lock |-> 0, watcher |-> 0], released |-> 0,
     events |-> <<>>, errors |-> <<>>, emitted |-> 0,
     loop |-> "select", rlocks |-> 0, errID |-> 0, todo |-> {}, calls |-> {},
     faults |-> 0]

\* WatchManager.Watch as it would be if the callback were stored before the
\* path is given to the fsnotify watcher.
WmWatchStoringFirst(wm, fs, path) ==
    IF wm.closed THEN [wm |-> wm, err |-> ErrUnavailable]
    ELSE LET diskPath == WatchDiskPath(wm.rootPath, path)
             stored   == [wm EXCEPT !.watches = @ \cup {path}]
         IN
         IF wm.watcherClosed \/ ~DiskPathExists(fs, wm.rootPath, diskPath)
         THEN [wm |-> stored, err |-> ErrWatchFailed]
         ELSE [wm  |-> [stored EXCEPT !.native = @ \cup {diskPath}],
               err |-> ErrNil]

\* WatchManager.Watch
WmWatch(wm, fs, path) ==
    IF wm.closed THEN [wm |-> wm, err |-> ErrUnavailable]
    ELSE LET diskPath == WatchDiskPath(wm.rootPath, path) IN
         IF wm.watcherClosed \/ ~DiskPathExists(fs, wm.rootPath, diskPath)
         THEN [wm |-> wm, err |-> ErrWatchFailed]
         ELSE [wm  |-> [wm EXCEPT !.native = @ \cup {diskPath},
                                  !.watches = @ \cup {path}],
               err |-> ErrNil]

\* WatchManager.StopWatch
WmStopWatch(wm, path) ==
    IF wm.closed THEN [wm |-> wm, err |-> ErrNil]
    ELSE [wm  |-> [wm EXCEPT !.native = @ \ {WatchDiskPath(wm.rootPath, path)},
                             !.watches = @ \ {path}],
          err |-> ErrNil]

\* WatchManager.StopAllWatches
WmStopAllWatches(wm) ==
    IF wm.closed THEN [wm |-> wm, err |-> ErrNil]
    ELSE [wm  |-> [wm EXCEPT
                     !.native = @ \ {StopAllDiskPath(wm.rootPath, p) : p \in wm.watches},
                     !.watches = {}],
          err |-> ErrNil]

\* WatchManager.IsWatching
WmIsWatching(wm, path) == IF wm.closed THEN FALSE ELSE path \in wm.watches

\* WatchManager.Close as it would be if it stopped every watch and closed the
\* fsnotify watcher without setting closed.
WmCloseLeavingOpen(wm) ==
    IF wm.closed THEN [wm |-> wm, err |-> ErrNil]
    ELSE [wm  |-> [WmStopAllWatches(wm).wm EXCEPT
                      !.native = {}, !.watcherClosed = TRUE,
                      !.released = @ + 1],
          err |-> ErrNil]

\* WatchManager.Close: closed is set, the StopAllWatches it then calls finds
\* closed set and returns at once, and the fsnotify watcher is closed, which
\* releases every native registration.
WmClose(wm) ==
    IF wm.closed THEN [wm |-> wm, err |-> ErrNil]
    ELSE LET marked  == [wm EXCEPT !.closed = TRUE]
             stopped == WmStopAllWatches(marked).wm
         IN  [wm  |-> [stopped EXCEPT !.native = {}, !.watcherClosed = TRUE,
                                      !.released = @ + 1],
              err |-> ErrNil]

\* WatchManager.Close, step by step, for calls that overlap.  The check of
\* closed is made without the lock: seen is the value the read returned.
WmCloseBegin(wm, seen) ==
    IF seen THEN [wm |-> wm, err |-> ErrNil, returned |-> TRUE]
    ELSE [wm |-> [wm EXCEPT !.closing.lock = @ + 1],
          err |-> ErrNil, returned |-> FALSE]

\* The values the unlocked read of closed can return: the value stored, and,
\* while another Close is in flight (its write of closed is not ordered
\* before the read), the value from before that write.
ClosedSeen(wm) ==
    {wm.closed} \cup
    (IF wm.closing.lock + wm.closing.watcher > 0 THEN {FALSE} ELSE {})

\* Lock, closed = true, Unlock, and the StopAllWatches call that follows.
WmCloseMark(wm) ==
    LET marked  == [wm EXCEPT !.closed = TRUE]
        stopped == WmStopAllWatches(marked).wm
    IN  [stopped EXCEPT !.closing.lock = @ - 1, !.closing.watcher = @ + 1]

\* The return of Close as it would be if closing a closed fsnotify watcher
\* were an error.
WmCloseWatcherOnce(wm) ==
    [wm  |-> [wm EXCEPT !.native = {}, !.watcherClosed = TRUE,
                        !.closing.watcher = @ - 1, !.released = @ + 1],
     err |-> IF wm.watcherClosed THEN ErrWatchFailed ELSE ErrNil]

\* return wm.watcher.Close(): fsnotify's Close releases every native
\* registration, and returns nil on a watcher that is closed already.
WmCloseWatcher(wm) ==
    [wm  |-> [wm EXCEPT !.native = {}, !.watcherClosed = TRUE,
                        !.closing.watcher = @ - 1, !.released = @ + 1],
     err |-> ErrNil]

(***************************************************************************)
(* The event loop of the watch manager (processEvents, handleEvent)        *)
(***************************************************************************)

\* filepath.Rel(basepath, targpath): ok is FALSE where Rel returns an error.
\* b and t are the elements of the cleaned paths, the root of a rooted path
\* left out.
RECURSIVE CommonElems(_, _, _)
CommonElems(b, t, k) ==
    IF k < Len(b) /\ k < Len(t) /\ b[k + 1] = t[k + 1]
    THEN CommonElems(b, t, k + 1) ELSE k

Rel(basepath, targpath) ==
    Then(Clean(basepath), LAMBDA base :
    Then(Clean(targpath), LAMBDA targ :
    Then(IF base = Dot THEN <<>>
         ELSE SelectSeq(SplitPath(base), LAMBDA e : e # <<>>), LAMBDA b :
    Then(IF targ = Dot THEN <<>>
         ELSE SelectSeq(SplitPath(targ), LAMBDA e : e # <<>>), LAMBDA t :
    Then(CommonElems(b, t, 0), LAMBDA k :
        LET ups == [j \in 1..(Len(b) - k) |-> DotDot]
            out == JoinElems(ups \o SubSeq(t, k + 1, Len(t)))
        IN  IF IsAbs(base) # IsAbs(targ)
               \/ \E j \in (k + 1)..Len(b) : b[j] = DotDot
            THEN [path |-> <<>>, ok |-> FALSE]
            ELSE [path |-> IF out = <<>> THEN Dot ELSE out, ok |-> TRUE])))))

\* filepath.Ext(path): the suffix from the last dot of the last element.
RECURSIVE ExtFrom(_, _)
ExtFrom(path, k) ==
    IF k = 0 \/ path[k] = "/" THEN <<>>
    ELSE IF path[k] = "." THEN SubSeq(path, k, Len(path))
    ELSE ExtFrom(path, k - 1)

Ext(path) == ExtFrom(path, Len(path))

\* filepath.Match(pattern, name) for patterns of literals, '*' and '?'.
RECURSIVE Match(_, _)
Match(pattern, name) ==
    IF pattern = <<>> THEN name = <<>>
    ELSE IF pattern[1] = "*"
         THEN \/ Match(Tail(pattern), name)
              \/ /\ name # <<>>
                 /\ name[1] # "/"
                 /\ Match(pattern, Tail(name))
    ELSE IF name = <<>> THEN FALSE
    ELSE IF pattern[1] = "?"
         THEN name[1] # "/" /\ Match(Tail(pattern), Tail(name))
    ELSE pattern[1] = name[1] /\ Match(Tail(pattern), Tail(name))

\* WatchManager.pathMatches as it would be without the rule for "/".
pathMatchesWithoutRoot(filePath, watchPath) ==
    \/ filePath = watchPath
    \/ HasPrefix(filePath, watchPath \o Slash)
    \/ Match(watchPath, filePath)

\* WatchManager.pathMatches
pathMatches(filePath, watchPath) ==
    \/ filePath = watchPath
    \/ watchPath = Slash
    \/ HasPrefix(filePath, watchPath \o Slash)
    \/ Match(watchPath, filePath)

\* WatchManager.isDir
isDir(path) == Ext(path) = <<>>

\* WatchOp: WatchOpCreate is the zero value.
WatchOpCreate == "Create"

WatchOpWrite == "Write"

WatchOpRemove == "Remove"

WatchOpRename == "Rename"

WatchOpChmod == "Chmod"

\* WatchManager.convertFsnotifyOp, of the set of bits of an fsnotify.Op.
convertFsnotifyOp(op) ==
    IF "Create" \in op THEN WatchOpCreate
    ELSE IF "Write" \in op THEN WatchOpWrite
    ELSE IF "Remove" \in op THEN WatchOpRemove
    ELSE IF "Rename" \in op THEN WatchOpRename
    ELSE IF "Chmod" \in op THEN WatchOpChmod
    ELSE WatchOpWrite

\* The error a native error event carries.
ErrNative == "native watcher error"

\* The position of processEvents.
LoopSelect == "select"

LoopBroadcast == "broadcast"

LoopReturned == "returned"

LoopPanicked == "panicked"

\* The WatchEvent of handleEvent as it would be if the path were left
\* relative to the root, without the slash before it.
FileEventUnrooted(rootPath, name, op) ==
    Then(Rel(rootPath, name), LAMBDA rel :
        [ok    |-> rel.ok,
         event |-> [Path  |-> rel.path,
                    Op    |-> convertFsnotifyOp(op),
                    IsDir |-> isDir(name),
                    Error |-> ErrNil]])

\* The WatchEvent handleEvent builds for a native event, ok FALSE where it
\* returns before building one.
FileEvent(rootPath, name, op) ==
    Then(Rel(rootPath, name), LAMBDA rel :
        [ok    |-> rel.ok,
         event |-> [Path  |-> Slash \o rel.path,
                    Op    |-> convertFsnotifyOp(op),
                    IsDir |-> isDir(name),
                    Error |-> ErrNil]])

\* The WatchEvent processEvents builds for a native error.
ErrorEvent(path) ==
    [Path |-> path, Op |-> WatchOpCreate, IsDir |-> FALSE, Error |-> ErrNative]

\* An invocation of the callback of a pattern: by is "go" for the goroutine
\* handleEvent starts and "loop" for the call processEvents makes itself; id
\* is the native event or error it answers; pc is its position.
Invocation(id, pattern, event, by, pc) ==
    [id |-> id, pattern |-> pattern, event |-> event, by |-> by, pc |-> pc,
     call |-> <<>>]

\* handleEvent: one goroutine for each pattern of the map that matches.
WmHandleEvent(wm, e) ==
    Then(FileEvent(wm.rootPath, e.name, e.op), LAMBDA fe :
        IF ~fe.ok THEN wm
        ELSE [wm EXCEPT !.calls = @ \cup
                {Invocation(e.id, p, fe.event, "go", "spawned") :
                    p \in {q \in wm.watches : pathMatches(fe.event.Path, q)}}])

\* The disk name of a store entry.
DiskName(rootPath, key) == IF key = Slash THEN rootPath ELSE rootPath \o key

\* Whether the fsnotify watcher observes a change of the disk name: the name
\* is registered, or the directory that holds it is.
Observed(wm, name) ==
    /\ ~wm.watcherClosed
    /\ name \in wm.native \/ Dir(name) \in wm.native

\* The native events of a change of the store from fs to fs2 that wrote
\* the entries of written: an entry that appears is created (and written,
\* if it is a file), one that is written is written, one that disappears
\* is removed.
RECURSIVE EventsOf(_, _, _, _)
EventsOf(keys, fs, fs2, k) ==
    IF k > Len(keys) THEN <<>>
    ELSE LET key == keys[k]
             ops == IF key \notin DOMAIN fs2 THEN << {"Remove"} >>
                    ELSE IF key \notin DOMAIN fs
                         THEN IF fs2[key].dir THEN << {"Create"} >>
                              ELSE << {"Create"}, {"Write"} >>
                    ELSE << {"Write"} >>
         IN  [j \in 1..Len(ops) |-> [key |-> key, op |-> ops[j]]]
             \o EventsOf(keys, fs, fs2, k + 1)

Changed(fs, fs2, written) ==
    {k \in (DOMAIN fs) \cup (DOMAIN fs2) :
        \/ k \notin DOMAIN fs
        \/ k \notin DOMAIN fs2
        \/ fs[k] # fs2[k]
        \/ k \in written}

\* The watch manager after the disk changed from fs to fs2: the events of
\* the changes it observes are pending on watcher.Events.
RECURSIVE Enqueue(_, _, _)
Enqueue(wm, evs, k) ==
    IF k > Len(evs) THEN wm
    ELSE LET name == DiskName(wm.rootPath, evs[k].key) IN
         IF Observed(wm, name)
         THEN Enqueue([wm EXCEPT
                         !.events = Append(@, [id |-> wm.emitted + 1,
                                               name |-> name, op |-> evs[k].op]),
                         !.emitted = @ + 1], evs, k + 1)
         ELSE Enqueue(wm, evs, k + 1)

WmNotify(wm, fs, fs2, written) ==
    Enqueue(wm, EventsOf(Sorted(Changed(fs, fs2, written)), fs, fs2, 1), 1)

(***************************************************************************)
(* FindFiles (main.go)                                                     *)
(***************************************************************************)

\* VFS.FindFiles for patterns of literals, '*' and '?', which filepath.Match
\* takes without error: the paths returned, in the order of the walk, and the
\* error of the walk.  r is the result of the GetBundledFS call of v.Walk.
VfsFindFiles(bundled, fs, root, pattern, r) ==
    IF r.ok
    THEN LET b        == bundled[r.key]
             fullRoot == getFullPath(b, r.rest)
             walk     == BundledWalk(b, r.rest)
             entries  == EmbedWalkFrom(b.embedFS, fullRoot)
             found    == {k \in 1..Len(walk.visited) :
                             /\ entries[k] \notin ArchiveDirs(b.embedFS)
                             /\ Match(pattern, Base(walk.visited[k]))}
         IN  [matches |-> SelectSeq(walk.visited,
                                    LAMBDA p : \E k \in found : walk.visited[k] = p),
              err |-> walk.err]
    ELSE LET walk == VfsWalk(bundled, fs, root, r)
         IN  [matches |-> SelectSeq(walk.visited,
                                    LAMBDA p : ~fs[p].dir /\ Match(pattern, Base(p))),
              err |-> walk.err]

(***************************************************************************)
(* LoadFromDisk and SaveToDisk (main.go).  os is the OS filesystem, a store *)
(* of its own with the names and the refusals of the backing store.        *)
(***************************************************************************)

\* The name the OS filesystem resolves a path to: a relative path is taken
\* from the working directory of the process, here the root.
OsPath(path) == IF IsAbs(path) THEN path ELSE Join(Slash, path)

\* The walkFn of VFS.LoadFromDisk applied to one name the walk of the OS
\* filesystem visits: the store of v after it, and the error it returns.
\* path is the name as the OS resolves it; the walk passes it as srcPath
\* joined with what lies below, so that both are relative or both absolute
\* and filepath.Rel gives what it gives for the resolved names.
LoadFile(bundled, fs, os, srcPath, destPath, path) ==
    Then(Rel(OsPath(srcPath), path), LAMBDA rel :
         IF ~rel.ok THEN [fs |-> fs, err |-> ErrInvalid]
         ELSE Then(Join(destPath, rel.path), LAMBDA vfsPath :
              IF os[path].dir THEN VfsMkdirAll(bundled, fs, vfsPath)
              ELSE Then(StoreReadFile(os, path), LAMBDA rd :
                   IF rd.err # ErrNil THEN [fs |-> fs, err |-> rd.err]
                   ELSE VfsWriteFile(bundled, fs, vfsPath, rd.data))))

\* The walk of VFS.LoadFromDisk as it would be if it went on after a walkFn
\* that returned an error, and returned the first error at the end.
RECURSIVE LoadWalkGoingOn(_, _, _, _, _, _, _)
LoadWalkGoingOn(bundled, fs, os, srcPath, destPath, visited, k) ==
    IF k > Len(visited) THEN [fs |-> fs, err |-> ErrNil]
    ELSE Then(LoadFile(bundled, fs, os, srcPath, destPath, visited[k]),
              LAMBDA step :
              Then(LoadWalkGoingOn(bundled, step.fs, os, srcPath, destPath,
                                   visited, k + 1), LAMBDA rest :
                   [fs |-> rest.fs,
                    err |-> IF step.err # ErrNil THEN step.err ELSE rest.err]))

\* The walk of VFS.LoadFromDisk from visited[k] on: it stops at the first
\* error.
RECURSIVE LoadWalk(_, _, _, _, _, _, _)
LoadWalk(bundled, fs, os, srcPath, destPath, visited, k) ==
    IF k > Len(visited) THEN [fs |-> fs, err |-> ErrNil]
    ELSE Then(LoadFile(bundled, fs, os, srcPath, destPath, visited[k]),
              LAMBDA step :
              IF step.err # ErrNil THEN step
              ELSE LoadWalk(bundled, step.fs, os, srcPath, destPath,
                            visited, k + 1))

\* VFS.LoadFromDisk: when srcPath does not exist the walkFn is called once
\* with the error and returns it.
VfsLoadFromDisk(bundled, fs, os, srcPath, destPath) ==
    IF ~StoreExists(os, OsPath(srcPath)) THEN [fs |-> fs, err |-> ErrNotExist]
    ELSE LoadWalk(bundled, fs, os, srcPath, destPath,
                  StoreWalk(os, OsPath(srcPath)), 1)

\* The walkFn of VFS.SaveToDisk as it would be if it wrote every entry
\* straight into destPath under its base name.
SaveFileFlattening(bundled, fs, os, vfsSrcPath, destPath, path) ==
    Then(Rel(vfsSrcPath, path), LAMBDA rel :
         IF ~rel.ok THEN [fs |-> os, err |-> ErrInvalid]
         ELSE Then(Join(destPath, IF rel.path = Dot THEN Dot ELSE Base(path)),
                   LAMBDA diskPath :
              IF fs[path].dir THEN StoreMkdirAll(os, OsPath(diskPath))
              ELSE Then(VfsReadFile(bundled, fs, path,
                                    WalkedLookup(bundled, path)), LAMBDA rd :
                   IF rd.err # ErrNil THEN [fs |-> os, err |-> rd.err]
                   ELSE StoreWriteFile(os, OsPath(diskPath), rd.data))))

\* The walkFn of VFS.SaveToDisk applied to one name the walk of v visits: the
\* OS filesystem after it, and the error it returns.
SaveFile(bundled, fs, os, vfsSrcPath, destPath, path) ==
    Then(Rel(vfsSrcPath, path), LAMBDA rel :
         IF ~rel.ok THEN [fs |-> os, err |-> ErrInvalid]
         ELSE Then(Join(destPath, rel.path), LAMBDA diskPath :
              IF fs[path].dir THEN StoreMkdirAll(os, OsPath(diskPath))
              ELSE Then(VfsReadFile(bundled, fs, path,
                                    WalkedLookup(bundled, path)), LAMBDA rd :
                   IF rd.err # ErrNil THEN [fs |-> os, err |-> rd.err]
                   ELSE StoreWriteFile(os, OsPath(diskPath), rd.data))))

\* The walk of VFS.SaveToDisk from visited[k] on: it stops at the first
\* error.
RECURSIVE SaveWalk(_, _, _, _, _, _, _)
SaveWalk(bundled, fs, os, vfsSrcPath, destPath, visited, k) ==
    IF k > Len(visited) THEN [fs |-> os, err |-> ErrNil]
    ELSE Then(SaveFile(bundled, fs, os, vfsSrcPath, destPath, visited[k]),
              LAMBDA step :
              IF step.err # ErrNil THEN step
              ELSE SaveWalk(bundled, fs, step.fs, vfsSrcPath, destPath,
                            visited, k + 1))

\* VFS.SaveToDisk: the OS filesystem after the call, and the error returned.
\* r is the result of the GetBundledFS call of v.Walk.
VfsSaveToDisk(bundled, fs, os, srcPath, destPath, r) ==
    IF IsBundledPath(bundled, srcPath) THEN [fs |-> os, err |-> ErrReadOnly]
    ELSE Then(normalizePath(bundled, srcPath), LAMBDA vfsSrcPath :
         Then(VfsWalk(bundled, fs, vfsSrcPath, r), LAMBDA walk :
              IF walk.err # ErrNil THEN [fs |-> os, err |-> walk.err]
              ELSE SaveWalk(bundled, fs, os, vfsSrcPath, destPath,
                            walk.visited, 1)))

(***************************************************************************)
(* Dump and printTree (main.go).  What a writer holds is the sequence of    *)
(* the lines written to it; a line is a string without its newline.  The   *)
(* box-drawing strings of the source are written in ASCII here.            *)
(***************************************************************************)

\* The nil io.Writer, and a writer that takes every write (*bytes.Buffer).
NilWriter == "nil"
Buffer == "buffer"
Writers == {NilWriter, Buffer}

\* What a call that panicked leaves its caller with instead of a result:
\* calling Write on the nil interface value is a run-time panic.
ErrPanic == "panic: runtime error: invalid memory address or nil pointer dereference"

RootMarker == <<"--- VFS Root ---">>
BundledMarker == <<"--- Bundled Filesystems ---">>

\* The connector of an entry, of the last entry of its directory, and what
\* each of them adds to the indent of the entries below.
ConnectorMid == "|-- "
ConnectorLast == "+-- "
IndentMid == "|   "
IndentLast == "    "

\* The map tree of Dump after its walk: each parent with the names appended
\* under it, the parent "." taken for root.  skip is the set of names the
\* walkFn returns on at once.
DumpTree(visited, skip, root) ==
    LET names == {visited[k] : k \in 1..Len(visited)} \ skip
        parentOf(p) == IF Dir(p) = Dot THEN root ELSE Dir(p)
    IN  [parent \in {parentOf(p) : p \in names} |->
            {p \in names : parentOf(p) = parent}]

\* printTree: the lines it writes.
RECURSIVE printTree(_, _, _)
RECURSIVE printEntries(_, _, _, _)
printTree(tree, root, indent) ==
    IF root \notin DOMAIN tree THEN <<>>
    ELSE printEntries(tree, Sorted(tree[root]), 1, indent)

printEntries(tree, entries, i, indent) ==
    IF i > Len(entries) THEN <<>>
    ELSE LET path      == entries[i]
             isLast    == i = Len(entries)
             connector == IF isLast THEN ConnectorLast ELSE ConnectorMid
             newIndent == indent \o <<IF isLast THEN IndentLast ELSE IndentMid>>
         IN  <<indent \o <<connector>> \o Base(path)>>
             \o (IF path \in DOMAIN tree
                 THEN printTree(tree, path, newIndent) ELSE <<>>)
             \o printEntries(tree, entries, i + 1, indent)

\* The part of Dump for the k-th of the registered prefixes and after, with
\* rs[k] what GetBundledFS returned for it.
RECURSIVE DumpBundles(_, _, _, _)
DumpBundles(bundled, prefixes, rs, k) ==
    IF k > Len(prefixes) THEN <<>>
    ELSE LET prefix  == prefixes[k]
             walk    == BundledWalk(bundled[rs[k].key], <<>>)
             visited == [n \in 1..Len(walk.visited) |->
                            TrimPrefix(walk.visited[n], prefix \o Sentinel)]
             tree    == DumpTree(visited, {<<>>, Dot}, <<>>)
         IN  << <<"Bundle [">> \o prefix \o Sentinel \o <<"]:">> >>
             \o (IF rs[k].ok THEN printTree(tree, <<>>, <<"  ">>) ELSE <<>>)
             \o DumpBundles(bundled, prefixes, rs, k + 1)

\* VFS.Dump: the lines written and the error returned.  prefixes is the
\* slice ListRegistered returned and rs[k] what GetBundledFS returned for
\* the k-th of them.
VfsDump(bundled, fs, writer, prefixes, rs) ==
    IF writer = NilWriter THEN [out |-> <<>>, err |-> ErrPanic]
    ELSE LET walk == VfsWalk(bundled, fs, Slash, [ok |-> FALSE])
             tree == DumpTree(walk.visited, {Slash}, Slash)
         IN  [out |-> <<RootMarker>>
                      \o printTree(tree, Slash, <<>>)
                      \o (IF Len(prefixes) > 0
                          THEN <<<<>>, BundledMarker>>
                               \o DumpBundles(bundled, prefixes, rs, 1)
                          ELSE <<>>),
              err |-> ErrNil]

(***************************************************************************)
(* State                                                                   *)
(***************************************************************************)

VARIABLES
    insts,  \* the VFS instances, in order of construction
    fss,    \* the stores, indexed by VFS.fs; where LoadFromDisk and
            \* SaveToDisk are called, the OS filesystem is the last of them
    bms,    \* the prefix maps, indexed by VFS.bundledManager
    wms,    \* the watch managers, indexed by VFS.watchManager
    last,   \* the last call and what it returned
    ops     \* the number of calls made so far that count against MaxOps

vars == <<insts, fss, bms, wms, last, ops>>

\* The instances a run constructs at most.
MaxInst == 2

\* The constructions, mutating calls and watch calls a run makes at most
\* (registration and the pure path functions are not counted).
MaxOps == 3

\* File contents are 1..MaxData.
MaxData == 2

Data == 1..MaxData

VFSTypeMemory == "Memory"

VFSTypeDisk == "Disk"

VFSTypeHybrid == "Hybrid"

VFSTypes == {VFSTypeMemory, VFSTypeDisk, VFSTypeHybrid}

\* VFS.watchManager of an instance without a watch manager.
NoWatchManager == 0

Instances == 1..Len(insts)

\* The instances with a watch manager.
Watchers == {i \in Instances : insts[i].watchManager # NoWatchManager}

\* The prefix map, the store and the watch manager of instance i.
BundledOf(i) == bms[insts[i].bundledManager]

FsOf(i) == fss[insts[i].fs]

WmOf(i) == wms[insts[i].watchManager]

\* A call record: the operation, the instance, and defaults for the rest.
Call(op, i) ==
    [op |-> op, inst |-> i, path |-> <<>>, data |-> NoData, dst |-> <<>>,
     other |-> 0, err |-> ErrNil, ret |-> <<>>]

\* New: the fields of the instance it returns.  watcherOK is whether
\* fsnotify.NewWatcher succeeded; NewWatchManager returns nil when it failed.
New(vfsType, watcherOK, fsId, bmId, wmId) ==
    [vfsType        |-> vfsType,
     fs             |-> fsId,
     bundledManager |-> bmId,
     watchManager   |-> IF vfsType = VFSTypeDisk /\ watcherOK
                        THEN wmId ELSE NoWatchManager,
     origin         |-> 0,
     closeReturned  |-> FALSE]

\* VFS.Clone as it would be if the clone were handed the store of the
\* original in place of a new one.
CloneSharingStore(i, fsId) ==
    [vfsType        |-> VFSTypeMemory,
     fs             |-> insts[i].fs,
     bundledManager |-> insts[i].bundledManager,
     watchManager   |-> NoWatchManager,
     origin         |-> i,
     closeReturned  |-> FALSE]

\* VFS.Clone as it would be if the clone were handed the watch manager of
\* the original.
CloneKeepingWatchManager(i, fsId) ==
    [vfsType        |-> VFSTypeMemory,
     fs             |-> fsId,
     bundledManager |-> insts[i].bundledManager,
     watchManager   |-> insts[i].watchManager,
     origin         |-> i,
     closeReturned  |-> FALSE]

\* VFS.Clone as it would be if the clone were handed a copy of the prefix
\* map of the original in place of the map itself.
CloneCopyingRegistry(i, fsId) ==
    [vfsType        |-> VFSTypeMemory,
     fs             |-> fsId,
     bundledManager |-> Len(bms) + 1,
     watchManager   |-> NoWatchManager,
     origin         |-> i,
     closeReturned  |-> FALSE]

\* VFS.Clone: the fields of the clone of instance i.  origin records the
\* instance it was cloned from.
Clone(i, fsId) ==
    [vfsType        |-> VFSTypeMemory,
     fs             |-> fsId,
     bundledManager |-> insts[i].bundledManager,
     watchManager   |-> NoWatchManager,
     origin         |-> i,
     closeReturned  |-> FALSE]

\* The state after the first instance is constructed.
InitWith(vfsType, watcherOK) ==
    LET v == New(vfsType, watcherOK, 1, 1, 1) IN
    /\ insts = <<v>>
    /\ fss = <<NewFs>>
    /\ bms = <<NewBundledManager>>
    /\ wms = IF v.watchManager = NoWatchManager THEN <<>>
             ELSE <<NewWatchManager(RootPath)>>
    /\ last = Call("New", 1)
    /\ ops = 0

(***************************************************************************)
(* Calls                                                                   *)
(***************************************************************************)

\* A call that counts against MaxOps.
Step == /\ ops < MaxOps
        /\ ops' = ops + 1

\* NewMemoryVFS, NewDiskVFS, NewHybridVFS
NewVFS(vfsType, watcherOK) ==
    /\ Step
    /\ Len(insts) < MaxInst
    /\ LET v == New(vfsType, watcherOK, Len(fss) + 1, Len(bms) + 1, Len(wms) + 1) IN
       /\ insts' = Append(insts, v)
       /\ fss' = Append(fss, NewFs)
       /\ bms' = Append(bms, NewBundledManager)
       /\ wms' = IF v.watchManager = NoWatchManager THEN wms
                 ELSE Append(wms, NewWatchManager(RootPath))
       /\ last' = Call("New", Len(insts) + 1)

\* VFS.Clone
CloneVFS(i) ==
    /\ Step
    /\ Len(insts) < MaxInst
    /\ LET c == Clone(i, Len(fss) + 1) IN
       /\ insts' = Append(insts, c)
       /\ fss' = IF c.fs = Len(fss) + 1
                 THEN Append(fss, CloneFs(BundledOf(i), FsOf(i)))
                 ELSE fss
       /\ bms' = IF c.bundledManager = Len(bms) + 1
                 THEN Append(bms, BundledOf(i))
                 ELSE bms
    /\ last' = Call("Clone", i)
    /\ UNCHANGED wms

\* VFS.RegisterBundled
RegisterBundled(i, prefix, embedFS, subdir) ==
    /\ UNCHANGED ops
    /\ bms' = [bms EXCEPT ![insts[i].bundledManager] =
                  Register(@, prefix, embedFS, subdir)]
    /\ last' = [Call("RegisterBundled", i) EXCEPT
                  !.path = prefix, !.ret = <<embedFS, subdir>>]
    /\ UNCHANGED <<insts, fss, wms>>

\* The store entries a successful call wrote, whether or not their content
\* changed.
Written(i, call, res) ==
    IF res.err # ErrNil THEN {}
    ELSE IF call.op \in {"WriteFile", "Create"}
         THEN {StoreKey(normalizePath(BundledOf(i), call.path))}
    ELSE IF call.op \in {"Copy", "Move"}
         THEN {StoreKey(normalizePath(BundledOf(i), call.dst))}
    ELSE {}

\* A mutating call of the facade that returned res = [fs, err].  On a disk
\* instance the fsnotify watcher of its watch manager observes the change.
Mutation(i, call, res) ==
    /\ Step
    /\ fss' = [fss EXCEPT ![insts[i].fs] = res.fs]
    /\ last' = [call EXCEPT !.err = res.err]
    /\ wms' = IF insts[i].watchManager = NoWatchManager THEN wms
              ELSE [wms EXCEPT ![insts[i].watchManager] =
                      WmNotify(@, FsOf(i), res.fs, Written(i, call, res))]
    /\ UNCHANGED <<insts, bms>>

WriteFile(i, filename, data) ==
    Mutation(i, [Call("WriteFile", i) EXCEPT !.path = filename, !.data = data],
             VfsWriteFile(BundledOf(i), FsOf(i), filename, data))

MkdirAll(i, path) ==
    Mutation(i, [Call("MkdirAll", i) EXCEPT !.path = path],
             VfsMkdirAll(BundledOf(i), FsOf(i), path))

Remove(i, path) ==
    Mutation(i, [Call("Remove", i) EXCEPT !.path = path],
             VfsRemove(BundledOf(i), FsOf(i), path))

RemoveAll(i, path) ==
    Mutation(i, [Call("RemoveAll", i) EXCEPT !.path = path],
             VfsRemoveAll(BundledOf(i), FsOf(i), path))

Create(i, path) ==
    Mutation(i, [Call("Create", i) EXCEPT !.path = path],
             VfsCreate(BundledOf(i), FsOf(i), path))

\* The OS filesystem of the runs that call LoadFromDisk and SaveToDisk.
OsId == Len(fss)

\* v.LoadFromDisk(srcPath, destPath) with v instance i, which is not a disk
\* instance over the directory read.
LoadFromDisk(i, srcPath, destPath) ==
    /\ insts[i].fs # OsId
    /\ Mutation(i, [Call("LoadFromDisk", i) EXCEPT !.path = srcPath,
                                                    !.dst = destPath],
                VfsLoadFromDisk(BundledOf(i), FsOf(i), fss[OsId],
                                srcPath, destPath))

\* v.SaveToDisk(srcPath, destPath) with v instance i.
SaveToDisk(i, srcPath, destPath) ==
    /\ insts[i].fs # OsId
    /\ Step
    /\ \E r \in GetBundledFS(BundledOf(i),
                              normalizePath(BundledOf(i), srcPath)) :
          LET res == VfsSaveToDisk(BundledOf(i), FsOf(i), fss[OsId],
                                   srcPath, destPath, r)
          IN  /\ fss' = [fss EXCEPT ![OsId] = res.fs]
              /\ last' = [Call("SaveToDisk", i) EXCEPT
                            !.path = srcPath, !.dst = destPath,
                            !.err = res.err]
    /\ UNCHANGED <<insts, bms, wms>>

Copy(i, src, dst) ==
    \E r1, r2 \in GetBundledFS(BundledOf(i), src) :
        Mutation(i, [Call("Copy", i) EXCEPT !.path = src, !.dst = dst],
                 VfsCopy(BundledOf(i), FsOf(i), src, dst, r1, r2))

Move(i, src, dst) ==
    \E r1, r2 \in GetBundledFS(BundledOf(i), src) :
        Mutation(i, [Call("Move", i) EXCEPT !.path = src, !.dst = dst],
                 VfsMove(BundledOf(i), FsOf(i), src, dst, r1, r2))

\* v.Merge(other, destPath) with v instance i and other instance j.
Merge(i, j, destPath) ==
    /\ insts[i].fs # insts[j].fs
    /\ Mutation(i, [Call("Merge", i) EXCEPT !.path = destPath, !.other = j],
                VfsMerge(BundledOf(i), FsOf(i), BundledOf(j), FsOf(j), destPath))

\* The results GetBundledFS can return for each name of the slice prefixes
\* followed by the sentinel, as Dump asks for them.
DumpResolutions(bundled, prefixes) ==
    LET of(k) == GetBundledFS(bundled, prefixes[k] \o Sentinel)
    IN  {rs \in [1..Len(prefixes) -> UNION {of(k) : k \in 1..Len(prefixes)}] :
            \A k \in 1..Len(prefixes) : rs[k] \in of(k)}

\* v.Dump(writer) with v instance i; ret is what the writer holds after the
\* call, and err is ErrPanic when the call panicked.
Dump(i, writer) ==
    /\ UNCHANGED ops
    /\ \E prefixes \in ListRegisteredSlices(BundledOf(i)) :
       \E rs \in DumpResolutions(BundledOf(i), prefixes) :
          LET res == VfsDump(BundledOf(i), FsOf(i), writer, prefixes, rs)
          IN  last' = [writer |-> writer]
                      @@ [Call("Dump", i) EXCEPT !.err = res.err, !.ret = res.out]
    /\ UNCHANGED <<insts, fss, bms, wms>>

\* v.Walk(root, walkFn) with v instance i and a walkFn that returns its error
\* argument; ret is the sequence of the paths passed to walkFn without an
\* error.
Walk(i, root) ==
    /\ UNCHANGED ops
    /\ \E r \in GetBundledFS(BundledOf(i), root) :
          LET res == VfsWalk(BundledOf(i), FsOf(i), root, r)
          IN  last' = [Call("Walk", i) EXCEPT
                         !.path = root, !.ret = res.visited, !.err = res.err]
    /\ UNCHANGED <<insts, fss, bms, wms>>

\* v.FindFiles(root, pattern) with v instance i; ret is the slice returned.
FindFiles(i, root, pattern) ==
    /\ UNCHANGED ops
    /\ \E r \in GetBundledFS(BundledOf(i), root) :
          LET res == VfsFindFiles(BundledOf(i), FsOf(i), root, pattern, r)
          IN  last' = [Call("FindFiles", i) EXCEPT
                         !.path = root, !.dst = pattern,
                         !.ret = res.matches, !.err = res.err]
    /\ UNCHANGED <<insts, fss, bms, wms>>

\* VFS.Watch: the watch managers after the call, and the error returned.
VfsWatch(i, path) ==
    IF insts[i].watchManager = NoWatchManager
    THEN [wms |-> wms, err |-> ErrNoWatch]
    ELSE LET res == WmWatch(WmOf(i), FsOf(i), path) IN
         [wms |-> [wms EXCEPT ![insts[i].watchManager] = res.wm], err |-> res.err]

\* VFS.StopWatch
VfsStopWatch(i, path) ==
    IF insts[i].watchManager = NoWatchManager
    THEN [wms |-> wms, err |-> ErrNoWatch]
    ELSE LET res == WmStopWatch(WmOf(i), path) IN
         [wms |-> [wms EXCEPT ![insts[i].watchManager] = res.wm], err |-> res.err]

\* VFS.StopAllWatches
VfsStopAllWatches(i) ==
    IF insts[i].watchManager = NoWatchManager
    THEN [wms |-> wms, err |-> ErrNoWatch]
    ELSE LET res == WmStopAllWatches(WmOf(i)) IN
         [wms |-> [wms EXCEPT ![insts[i].watchManager] = res.wm], err |-> res.err]

\* VFS.IsWatching
VfsIsWatching(i, path) ==
    IF insts[i].watchManager = NoWatchManager THEN FALSE
    ELSE WmIsWatching(WmOf(i), path)

\* VFS.Close
VfsClose(i) ==
    IF insts[i].watchManager = NoWatchManager
    THEN [wms |-> wms, err |-> ErrNil]
    ELSE LET res == WmClose(WmOf(i)) IN
         [wms |-> [wms EXCEPT ![insts[i].watchManager] = res.wm], err |-> res.err]

\* A call of the watch surface that returned res = [wms, err].
WatchCall(call, res) ==
    /\ Step
    /\ wms' = res.wms
    /\ last' = [call EXCEPT !.err = res.err]
    /\ UNCHANGED <<fss, bms>>

Watch(i, path) ==
    /\ WatchCall([Call("Watch", i) EXCEPT !.path = path], VfsWatch(i, path))
    /\ UNCHANGED insts

StopWatch(i, path) ==
    /\ WatchCall([Call("StopWatch", i) EXCEPT !.path = path], VfsStopWatch(i, path))
    /\ UNCHANGED insts

StopAllWatches(i) ==
    /\ WatchCall(Call("StopAllWatches", i), VfsStopAllWatches(i))
    /\ UNCHANGED insts

\* closeReturned records that Close has returned on the instance.
Close(i) ==
    /\ WatchCall(Call("Close", i), VfsClose(i))
    /\ insts' = [insts EXCEPT ![i].closeReturned = TRUE]

\* VFS.Close step by step, for calls that overlap.  CloseBegin is the call
\* up to the check of closed: without a watch manager, or with closed seen
\* set, Close returns there.
CloseBegin(i) ==
    /\ Step
    /\ IF insts[i].watchManager = NoWatchManager
       THEN /\ wms' = wms
            /\ last' = Call("Close", i)
            /\ insts' = [insts EXCEPT ![i].closeReturned = TRUE]
       ELSE \E seen \in ClosedSeen(WmOf(i)) :
              LET res == WmCloseBegin(WmOf(i), seen) IN
              /\ wms' = [wms EXCEPT ![insts[i].watchManager] = res.wm]
              /\ last' = IF res.returned THEN Call("Close", i)
                         ELSE Call("Close.check", i)
              /\ insts' = IF res.returned
                          THEN [insts EXCEPT ![i].closeReturned = TRUE]
                          ELSE insts
    /\ UNCHANGED <<fss, bms>>

\* A Close in flight on instance i takes the lock, which no reader holds,
\* and sets closed.
CloseMark(i) ==
    /\ insts[i].watchManager # NoWatchManager
    /\ WmOf(i).closing.lock > 0
    /\ WmOf(i).rlocks = 0
    /\ wms' = [wms EXCEPT ![insts[i].watchManager] = WmCloseMark(@)]
    /\ last' = Call("Close.mark", i)
    /\ UNCHANGED <<insts, fss, bms, ops>>

\* A Close in flight on instance i closes the fsnotify watcher and returns.
CloseWatcher(i) ==
    /\ insts[i].watchManager # NoWatchManager
    /\ WmOf(i).closing.watcher > 0
    /\ LET res == WmCloseWatcher(WmOf(i)) IN
       /\ wms' = [wms EXCEPT ![insts[i].watchManager] = res.wm]
       /\ last' = [Call("Close", i) EXCEPT !.err = res.err]
    /\ insts' = [insts EXCEPT ![i].closeReturned = TRUE]
    /\ UNCHANGED <<fss, bms, ops>>

\* The calls of the watch surface a callback makes.
CallbackCalls == {<<"Watch", <<"/", "d">> >>, <<"StopWatch", Slash>>,
                  <<"StopAllWatches", <<>> >>, <<"Close", <<>> >>}

\* The process of instance i runs: no callback panicked in processEvents.
Alive(i) ==
    insts[i].watchManager = NoWatchManager \/ WmOf(i).loop # LoopPanicked

\* Nothing holds mu of instance i, so that a call from outside the event
\* loop can lock it.  (A call that finds closed set returns before the lock.)
Unlocked(i) ==
    \/ insts[i].watchManager = NoWatchManager
    \/ WmOf(i).rlocks = 0
    \/ WmOf(i).closed

\* A step of the event loop or of a callback of instance i that leaves its
\* watch manager as wm.
Internal(op, i, wm) ==
    /\ wms' = [wms EXCEPT ![insts[i].watchManager] = wm]
    /\ last' = Call(op, i)
    /\ UNCHANGED <<insts, fss, bms, ops>>

\* The fsnotify watcher reports an error of its own.
NativeError(i) ==
    /\ Step
    /\ insts[i].watchManager # NoWatchManager
    /\ ~WmOf(i).watcherClosed
    /\ wms' = [wms EXCEPT ![insts[i].watchManager] =
                 [@ EXCEPT !.errors = Append(@, WmOf(i).emitted + 1),
                           !.emitted = @ + 1]]
    /\ last' = Call("watcher.Errors", i)
    /\ UNCHANGED <<insts, fss, bms>>

\* processEvents receives from watcher.Events and runs handleEvent.
LoopEvent(i) ==
    /\ insts[i].watchManager # NoWatchManager
    /\ LET wm == WmOf(i) IN
       /\ wm.loop = LoopSelect
       /\ ~wm.watcherClosed
       /\ wm.events # <<>>
       /\ Internal("handleEvent", i,
                   [WmHandleEvent(wm, Head(wm.events)) EXCEPT !.events = Tail(@)])

\* processEvents receives from watcher.Errors and takes the read lock.
LoopError(i) ==
    /\ insts[i].watchManager # NoWatchManager
    /\ LET wm == WmOf(i) IN
       /\ wm.loop = LoopSelect
       /\ ~wm.watcherClosed
       /\ wm.errors # <<>>
       /\ Internal("processEvents.error", i,
                   [wm EXCEPT !.errors = Tail(@), !.errID = Head(wm.errors),
                              !.loop = LoopBroadcast, !.rlocks = @ + 1,
                              !.todo = wm.watches])

\* processEvents is inside a callback it called.
LoopBusy(wm) ==
    \E c \in wm.calls : c.by = "loop" /\ c.pc \notin {"returned", "recovered"}

\* What a callback does when it is called: it returns, it blocks for good,
\* it panics, or it calls the watch surface of its own instance and then
\* returns.
Behaviours ==
    {<<"return">>, <<"block">>, <<"panic">>} \cup
    {<<"call">> \o call : call \in CallbackCalls}

\* The callbacks of a run that do anything but return, at most.
MaxFaults == 1

\* The watch manager after invocation c called the callback and the callback
\* behaved as does.  A panic is recovered in the goroutine of handleEvent;
\* nothing recovers in processEvents, where it ends the process.  A call of
\* the watch surface on a closed watch manager returns at its check of
\* closed, otherwise it goes on to lock mu.
Behave(wm, c, does) ==
    LET pc == IF does[1] = "return" THEN "returned"
              ELSE IF does[1] = "block" THEN "blocked"
              ELSE IF does[1] = "panic"
                   THEN IF c.by = "go" THEN "recovered" ELSE "panicked"
              ELSE IF wm.closed THEN "returned" ELSE "locking"
        to == [c EXCEPT !.pc = pc,
                        !.call = IF does[1] = "call" THEN Tail(does) ELSE <<>>]
    IN  [wm EXCEPT !.calls = (@ \ {c}) \cup {to},
                   !.faults = IF does[1] = "return" THEN @ ELSE @ + 1,
                   !.loop = IF pc = "panicked" THEN LoopPanicked ELSE @]

\* The range over the map calls the callback of pattern p.
LoopInvoke(i, p, does) ==
    /\ insts[i].watchManager # NoWatchManager
    /\ LET wm == WmOf(i)
           c  == Invocation(wm.errID, p, ErrorEvent(p), "loop", "running")
       IN  /\ wm.loop = LoopBroadcast
           /\ ~LoopBusy(wm)
           /\ p \in wm.todo
           /\ does[1] # "return" => wm.faults < MaxFaults
           /\ Internal("processEvents.action", i,
                       Behave([wm EXCEPT !.todo = @ \ {p}], c, does))

\* The range over the map is over: processEvents releases the read lock.
LoopUnlock(i) ==
    /\ insts[i].watchManager # NoWatchManager
    /\ LET wm == WmOf(i) IN
       /\ wm.loop = LoopBroadcast
       /\ ~LoopBusy(wm)
       /\ wm.todo = {}
       /\ Internal("processEvents.unlock", i,
                   [wm EXCEPT !.loop = LoopSelect, !.rlocks = @ - 1, !.errID = 0])

\* processEvents finds the channels of the fsnotify watcher closed.
LoopReturn(i) ==
    /\ insts[i].watchManager # NoWatchManager
    /\ LET wm == WmOf(i) IN
       /\ wm.loop = LoopSelect
       /\ wm.watcherClosed
       /\ Internal("processEvents.return", i, [wm EXCEPT !.loop = LoopReturned])

\* A goroutine of handleEvent is scheduled and calls the callback.
GoAction(i, c, does) ==
    /\ c.pc = "spawned"
    /\ does[1] # "return" => WmOf(i).faults < MaxFaults
    /\ Internal("action", i, Behave(WmOf(i), c, does))

\* The watch manager after the call of the watch surface that took mu.
WmCalled(wm, fs, call) ==
    IF call[1] = "Watch" THEN WmWatch(wm, fs, call[2]).wm
    ELSE IF call[1] = "StopWatch" THEN WmStopWatch(wm, call[2]).wm
    ELSE IF call[1] = "StopAllWatches" THEN WmStopAllWatches(wm).wm
    ELSE WmClose(wm).wm

\* The call a callback made gets mu, which no reader holds; the call and
\* then the callback return.
CbLocked(i, c) ==
    /\ c.pc = "locking"
    /\ WmOf(i).rlocks = 0
    /\ LET wm == WmCalled(WmOf(i), FsOf(i), c.call) IN
       Internal("action.called", i,
                [wm EXCEPT !.calls = (@ \ {c}) \cup {[c EXCEPT !.pc = "returned"]}])

\* A call of BundledManager.GetBundledFS through instance i; ret is the
\* result returned, with the entry found.
CallGetBundledFS(i, path) ==
    /\ UNCHANGED ops
    /\ \E r \in GetBundledFS(BundledOf(i), path) :
          last' = [Call("GetBundledFS", i) EXCEPT
                     !.path = path,
                     !.ret = IF r.ok THEN [ok |-> TRUE, rest |-> r.rest,
                                           bundled |-> BundledOf(i)[r.key]]
                             ELSE [ok |-> FALSE]]
    /\ UNCHANGED <<insts, fss, bms, wms>>

\* A call of BundledManager.ListRegistered through instance i; ret is the
\* slice returned.
CallListRegistered(i) ==
    /\ UNCHANGED ops
    /\ \E s \in ListRegisteredSlices(BundledOf(i)) :
          last' = [Call("ListRegistered", i) EXCEPT !.ret = s]
    /\ UNCHANGED <<insts, fss, bms, wms>>

\* A call of VFS.normalizePath on instance i; ret is the path returned.
CallNormalizePath(i, path) ==
    /\ UNCHANGED ops
    /\ last' = [Call("normalizePath", i) EXCEPT
                  !.path = path, !.ret = normalizePath(BundledOf(i), path)]
    /\ UNCHANGED <<insts, fss, bms, wms>>

(***************************************************************************)
(* Specifications                                                          *)
(***************************************************************************)

pA == <<"/", "a">>

pRelA == <<"a">>

pD == <<"/", "d">>

pDA == <<"/", "d", "/", "a">>

pXA == <<"x", ":", "/", "/", "a">>

pXD == <<"x", ":", "/", "/", "d">>

pX == <<"x">>

pXS == <<"x", ":", "/", "/">>

subL == <<"l">>

\* A prefix that holds the sentinel: its key extends the key of pX.
pXY == <<"x", ":", "/", "/", "y">>

pXYA == <<"x", ":", "/", "/", "y", ":", "/", "/", "a">>

\* The registrations of the runs: the same prefix without and with its
\* sentinel, under two subdirectories of archive A.
Registrations == {<<pX, "A", <<>> >>, <<pXS, "A", subL>>}

WritePaths == {pRelA, pDA, pXA}

DirPaths == {pD, pXD}

RemovePaths == {pA, pD, pXA}

CopyPairs == {<<pA, pDA>>, <<pXA, pA>>, <<pA, pXA>>}

MergeDests == {pD, pXD, Slash}

\* One instance: registration and the file operations of the facade.
Init == InitWith(VFSTypeMemory, TRUE)

Next ==
    \/ \E i \in Instances, reg \in Registrations :
          RegisterBundled(i, reg[1], reg[2], reg[3])
    \/ \E i \in Instances, p \in WritePaths, d \in Data : WriteFile(i, p, d)
    \/ \E i \in Instances, p \in DirPaths : MkdirAll(i, p)
    \/ \E i \in Instances, p \in RemovePaths : Remove(i, p)
    \/ \E i \in Instances, p \in RemovePaths : RemoveAll(i, p)
    \/ \E i \in Instances, p \in {pA, pXA} : Create(i, p)
    \/ \E i \in Instances, c \in CopyPairs : Copy(i, c[1], c[2])
    \/ \E i \in Instances, c \in CopyPairs : Move(i, c[1], c[2])

Spec == Init /\ [][Next]_vars

\* Several instances: construction, Clone, registration, file operations
\* and Merge.
NextMulti ==
    \/ NewVFS(VFSTypeMemory, TRUE)
    \/ \E i \in Instances : CloneVFS(i)
    \/ \E i \in Instances : RegisterBundled(i, pX, "A", <<>>)
    \/ \E i \in Instances, p \in {pRelA, pDA}, d \in Data : WriteFile(i, p, d)
    \/ \E i \in Instances : MkdirAll(i, pD)
    \/ \E i \in Instances : Remove(i, pA)
    \/ \E i \in Instances : RemoveAll(i, pD)
    \/ \E i \in Instances : Copy(i, pA, pDA)
    \/ \E i \in Instances : Move(i, pA, pDA)
    \/ \E i, j \in Instances, p \in {pD, pXD} : Merge(i, j, p)

SpecMulti == Init /\ [][NextMulti]_vars

\* Paths of at most MaxLen characters over PathChars.
MaxLen == 3

PathChars == {"/", ".", "a", ":"}

RECURSIVE Strings(_)
Strings(n) ==
    IF n = 0 THEN {<< >>}
    ELSE LET shorter == Strings(n - 1) IN
         shorter \cup {Append(t, c) : t \in shorter, c \in PathChars}

\* The paths of the runs of SpecPath: the short ones, and longer ones that
\* are relative, absolute, unclean, or carry a prefix.
PathInputs ==
    Strings(MaxLen) \cup
    { pA, pRelA, pDA, pXA, pXD, pXS, pXYA,
      <<"a", "/", "b">>, <<"/", "a", "/", "b">>,
      <<"/", "a", "/", ".", "/", "b">>, <<"/", "/", "a", "/", "b">>,
      <<"/", "a", "/", "x", "/", ".", ".", "/", "b">>,
      <<"a", "/", ".", ".", "/", ".", ".", "/", "b">>,
      <<"x", ":", "/", "a">>, <<"/", "x", ":", "/", "/", "a">> }

PathRegistrations ==
    Registrations \cup {<<pXY, "B", <<>> >>, << <<>>, "B", <<>> >>}

\* The registry and the path functions.
NextPath ==
    \/ \E i \in Instances, reg \in PathRegistrations :
          RegisterBundled(i, reg[1], reg[2], reg[3])
    \/ \E i \in Instances, p \in PathInputs : CallGetBundledFS(i, p)
    \/ \E i \in Instances, p \in PathInputs : CallNormalizePath(i, p)
    \/ \E i \in Instances : CallListRegistered(i)

SpecPath == Init /\ [][NextPath]_vars

\* Prefixes that overlap: a and ab, where the first is a literal prefix of
\* the second, and x and x://y, where the key of the first is a literal
\* prefix of the key of the second.
pAB2 == <<"a", "b">>

OverlapRegistrations ==
    {<<pRelA, "A", <<>> >>, <<pAB2, "B", <<>> >>,
     <<pX, "A", <<>> >>, <<pXY, "B", <<>> >>}

\* The paths looked up: one under each of the four keys, and one under none.
OverlapPaths ==
    {pRelA \o Sentinel \o <<"f">>, pAB2 \o Sentinel \o <<"f">>, pXA, pXYA, pA}

\* Lookups in registries whose prefixes overlap.
NextOverlap ==
    \/ \E i \in Instances, reg \in OverlapRegistrations :
          RegisterBundled(i, reg[1], reg[2], reg[3])
    \/ \E i \in Instances, p \in OverlapPaths : CallGetBundledFS(i, p)

SpecOverlap == Init /\ [][NextOverlap]_vars

\* The trees the stores of the runs of SpecWalk start as: empty; the file
\* /a; the files /a and /d/a; a file /d, in the way of a directory; a
\* directory /a, in the way of a file.
Trees ==
    { NewFs,
      NewFs @@ (pA :> [dir |-> FALSE, data |-> 1]),
      NewFs @@ (pA :> [dir |-> FALSE, data |-> 1])
            @@ (pD :> [dir |-> TRUE, data |-> NoData])
            @@ (pDA :> [dir |-> FALSE, data |-> 2]),
      NewFs @@ (pD :> [dir |-> FALSE, data |-> 1]),
      NewFs @@ (pA :> [dir |-> TRUE, data |-> NoData]) }

\* Two memory instances with stores that hold files already, the first with
\* the prefix x registered, and an OS filesystem that holds what the second
\* instance holds.
InitWalk ==
    /\ insts = <<New(VFSTypeMemory, TRUE, 1, 1, 1), New(VFSTypeMemory, TRUE, 2, 2, 2)>>
    /\ \E t1, t2 \in Trees : fss = <<t1, t2, t2>>
    /\ bms = <<Register(NewBundledManager, pX, "A", <<>>), NewBundledManager>>
    /\ wms = <<>>
    /\ last = Call("RegisterBundled", 1)
    /\ ops = 0

WalkDests == {Slash, pD, pXD}

\* The walks a run of SpecWalk makes at most.
MaxWalks == 2

\* The operations that walk a tree and copy it entry by entry.
NextWalk ==
    \/ \E p \in WalkDests : ops < MaxWalks /\ Merge(1, 2, p)
    \/ \E src \in {Slash, pD}, p \in WalkDests :
          ops < MaxWalks /\ LoadFromDisk(1, src, p)
    \/ \E src \in {Slash, pD}, p \in WalkDests :
          ops < MaxWalks /\ SaveToDisk(1, src, p)

SpecWalk == InitWalk /\ [][NextWalk]_vars

pY == <<"y">>

\* The registrations of the runs of SpecDump: two prefixes apart from each
\* other, the second under a subdirectory, and one that the key of the
\* first is a prefix of.
DumpRegistrations == {<<pX, "A", <<>> >>, <<pY, "A", subL>>, <<pXY, "B", <<>> >>}

\* Two memory instances with stores that hold the same files already.
InitDump ==
    /\ insts = <<New(VFSTypeMemory, TRUE, 1, 1, 1), New(VFSTypeMemory, TRUE, 2, 2, 2)>>
    /\ \E t \in Trees : fss = <<t, t>>
    /\ bms = <<NewBundledManager, NewBundledManager>>
    /\ wms = <<>>
    /\ last = Call("New", 2)
    /\ ops = 0

\* Registrations, and dumps to a nil writer and to a buffer.
NextDump ==
    \/ \E i \in Instances, reg \in DumpRegistrations :
          RegisterBundled(i, reg[1], reg[2], reg[3])
    \/ \E i \in Instances, w \in Writers : Dump(i, w)

SpecDump == InitDump /\ [][NextDump]_vars

\* The directories of the OS filesystem SaveToDisk is given in the runs of
\* SpecRound, both names of /d, and the paths LoadFromDisk loads into.
RoundDirs == {pD, <<"d">>}

RoundDests == {Slash, pD, <<"d">>, pDA}

\* A memory instance that holds files, with the prefix x registered or not,
\* an empty memory instance, and an OS filesystem in which the directory /d
\* is empty or missing; it holds a file of its own outside /d or not.
InitRound ==
    /\ insts = <<New(VFSTypeMemory, TRUE, 1, 1, 1), New(VFSTypeMemory, TRUE, 2, 2, 2)>>
    /\ \E t \in Trees, os \in {NewFs, NewFs @@ (pD :> [dir |-> TRUE, data |-> NoData]),
                              NewFs @@ (pA :> [dir |-> FALSE, data |-> 2])} :
          fss = <<t, NewFs, os>>
    /\ \E b \in {NewBundledManager, Register(NewBundledManager, pX, "A", <<>>)} :
          bms = <<b, NewBundledManager>>
    /\ wms = <<>>
    /\ last = Call("New", 2)
    /\ ops = 0

\* The first instance is saved to disk and the second loads what the disk
\* holds.
NextRound ==
    \/ \E d \in RoundDirs : ops < MaxWalks /\ SaveToDisk(1, Slash, d)
    \/ \E d \in RoundDirs, t \in RoundDests :
          ops < MaxWalks /\ LoadFromDisk(2, d, t)

SpecRound == InitRound /\ [][NextRound]_vars

\* The roots and the patterns of the searches in the runs of SpecFind: the
\* root, a directory under both of its names, a file, a name nothing is
\* under, and names in the bundles x and y.
FindRoots ==
    {Slash, pD, <<"d">>, pA, <<"/", "l">>,
     pX \o Sentinel, pX \o Sentinel \o Dot, pX \o Sentinel \o subL, pY \o Sentinel}

FindPatterns == {<<"*">>, <<"a">>, <<"?">>, <<"d", "*">>}

\* Registrations, searches and walks on the first of the instances of
\* InitDump.
NextFind ==
    \/ \E reg \in DumpRegistrations : RegisterBundled(1, reg[1], reg[2], reg[3])
    \/ \E root \in FindRoots, pattern \in FindPatterns : FindFiles(1, root, pattern)
    \/ \E root \in FindRoots : Walk(1, root)

SpecFind == InitDump /\ [][NextFind]_vars

\* The pairs Move is given in the runs of SpecMove: apart, naming the same
\* file in three ways, into a directory, and out of a bundle.
MovePairs ==
    {<<pA, pDA>>, <<pDA, pRelA>>, <<pA, pA>>, <<pA, pRelA>>,
     <<pRelA, <<"/", "a", "/">> >>, <<pDA, pD>>, <<pXA, pA>>}

\* Writes, a registration, and moves.
NextMove ==
    \/ \E p \in {pRelA, pDA}, d \in Data : WriteFile(1, p, d)
    \/ RegisterBundled(1, pX, "A", <<>>)
    \/ \E c \in MovePairs : Move(1, c[1], c[2])

SpecMove == Init /\ [][NextMove]_vars

WatchPaths == {Slash, pD, <<"d">>}

\* The watch surface, on instances of each type and on clones.
InitWatch == \E t \in VFSTypes, watcherOK \in BOOLEAN : InitWith(t, watcherOK)

NextWatch ==
    \/ \E t \in VFSTypes, watcherOK \in BOOLEAN : NewVFS(t, watcherOK)
    \/ \E i \in Instances : CloneVFS(i)
    \/ \E i \in Instances : MkdirAll(i, pD)
    \/ \E i \in Instances, p \in WatchPaths : Watch(i, p)
    \/ \E i \in Instances, p \in WatchPaths : StopWatch(i, p)
    \/ \E i \in Instances : StopAllWatches(i)
    \/ \E i \in Instances : Close(i)

SpecWatch == InitWatch /\ [][NextWatch]_vars

\* Close calls that overlap, on instances of each type.
NextClose ==
    \/ \E i \in Instances : MkdirAll(i, pD)
    \/ \E i \in Instances, p \in WatchPaths : Watch(i, p)
    \/ \E i \in Instances : CloseBegin(i)
    \/ \E i \in Instances : CloseMark(i)
    \/ \E i \in Instances : CloseWatcher(i)

SpecClose == InitWatch /\ [][NextClose]_vars

\* What the root directory of the disk instance holds when the instance is
\* constructed: a directory d and a file named *.
pStar == <<"/", "*">>

DiskContent ==
    (Slash :> [dir |-> TRUE, data |-> NoData]) @@
    (pD :> [dir |-> TRUE, data |-> NoData]) @@
    (pStar :> [dir |-> FALSE, data |-> 1])

\* The patterns watched and the files written.
EventPatterns == {Slash, pD, pStar, pA}

EventFiles == {pA, pDA}


\* The event loop: a disk instance over a root directory that holds
\* DiskContent, its watches, writes, native errors and callbacks.
InitEvents ==
    /\ insts = <<New(VFSTypeDisk, TRUE, 1, 1, 1)>>
    /\ fss = <<DiskContent>>
    /\ bms = <<NewBundledManager>>
    /\ wms = <<NewWatchManager(RootPath)>>
    /\ last = Call("New", 1)
    /\ ops = 0

NextEvents ==
    \/ \E i \in Instances, p \in EventPatterns :
          Alive(i) /\ Unlocked(i) /\ Watch(i, p)
    \/ \E i \in Instances : Alive(i) /\ Unlocked(i) /\ Close(i)
    \/ \E i \in Instances, f \in EventFiles : Alive(i) /\ WriteFile(i, f, 1)
    \/ \E i \in Instances : Alive(i) /\ NativeError(i)
    \/ \E i \in Instances : Alive(i) /\ LoopEvent(i)
    \/ \E i \in Instances : Alive(i) /\ LoopError(i)
    \/ \E i \in Instances, p \in EventPatterns, does \in Behaviours :
          Alive(i) /\ LoopInvoke(i, p, does)
    \/ \E i \in Instances : Alive(i) /\ LoopUnlock(i)
    \/ \E i \in Instances : Alive(i) /\ LoopReturn(i)
    \/ \E i \in Watchers : \E c \in WmOf(i).calls, does \in Behaviours :
          Alive(i) /\ GoAction(i, c, does)
    \/ \E i \in Watchers : \E c \in WmOf(i).calls :
          Alive(i) /\ CbLocked(i, c)

SpecEvents == InitEvents /\ [][NextEvents]_vars

\* What a callback does in the runs of SpecDelivery.
DeliveryBehaviours == {<<"return">>, <<"block">>, <<"panic">>}

\* Delivery: the same disk instance with watches that stay registered, writes
\* and their native events, and callbacks that return, block or panic.
NextDelivery ==
    \/ \E i \in Instances, p \in {Slash, pD} : Watch(i, p)
    \/ \E i \in Instances, f \in EventFiles : WriteFile(i, f, 1)
    \/ \E i \in Instances : LoopEvent(i)
    \/ \E i \in Watchers : \E c \in WmOf(i).calls, does \in DeliveryBehaviours :
          GoAction(i, c, does)

\* The goroutine of processEvents and the goroutines handleEvent starts are
\* scheduled whenever they can run.
FairDelivery ==
    /\ WF_vars(\E i \in Instances : LoopEvent(i))
    /\ WF_vars(\E i \in Watchers : \E c \in WmOf(i).calls,
                     does \in DeliveryBehaviours : GoAction(i, c, does))

SpecDelivery == InitEvents /\ [][NextDelivery]_vars /\ FairDelivery

\* What a callback does in the runs of SpecDrain.
DrainBehaviours == {<<"return">>, <<"block">>}

\* Draining: the same disk instance, its watches, writes, native errors and
\* callbacks, and Close calls taken step by step, so that the event loop
\* runs between the steps of a Close.
NextDrain ==
    \/ \E i \in Instances, p \in {Slash, pD} : Unlocked(i) /\ Watch(i, p)
    \/ \E i \in Instances : WriteFile(i, pA, 1)
    \/ \E i \in Instances : NativeError(i)
    \/ \E i \in Instances : CloseBegin(i)
    \/ \E i \in Instances : CloseMark(i)
    \/ \E i \in Instances : CloseWatcher(i)
    \/ \E i \in Instances : LoopEvent(i)
    \/ \E i \in Instances : LoopError(i)
    \/ \E i \in Instances, p \in {Slash, pD}, does \in DrainBehaviours :
          LoopInvoke(i, p, does)
    \/ \E i \in Instances : LoopUnlock(i)
    \/ \E i \in Instances : LoopReturn(i)
    \/ \E i \in Watchers : \E c \in WmOf(i).calls, does \in DrainBehaviours :
          GoAction(i, c, does)

\* The goroutine of processEvents takes each of its steps whenever it can,
\* and so do the goroutines handleEvent starts; whether a callback returns
\* is up to the callback.
FairDrain ==
    /\ WF_vars(\E i \in Instances : LoopEvent(i))
    /\ WF_vars(\E i \in Instances : LoopError(i))
    /\ WF_vars(\E i \in Instances, p \in {Slash, pD}, does \in DrainBehaviours :
                   LoopInvoke(i, p, does))
    /\ WF_vars(\E i \in Instances : LoopUnlock(i))
    /\ WF_vars(\E i \in Instances : LoopReturn(i))
    /\ WF_vars(\E i \in Watchers : \E c \in WmOf(i).calls,
                   does \in DrainBehaviours : GoAction(i, c, does))

SpecDrain == InitEvents /\ [][NextDrain]_vars /\ FairDrain

(***************************************************************************)
(* What a caller observes through an instance                              *)
(***************************************************************************)

\* The results of the seven reading operations for one GetBundledFS result.
Reads(bundled, fs, path, r) ==
    [ReadFile  |-> VfsReadFile(bundled, fs, path, r),
     Exists    |-> VfsExists(bundled, fs, path, r),
     IsDir     |-> VfsIsDir(bundled, fs, path, r),
     Stat      |-> VfsStat(bundled, fs, path, r),
     ListFiles |-> VfsListFiles(bundled, fs, path, r),
     ListDirs  |-> VfsListDirs(bundled, fs, path, r),
     Walk      |-> VfsWalk(bundled, fs, path, r)]

\* The results the reading operations of instance i can give for path.
ReadsOf(i, path) ==
    {Reads(BundledOf(i), FsOf(i), path, r) :
        r \in GetBundledFS(BundledOf(i), path)}

\* The results ReadFile can give for path.
ReadFileIn(bundled, fs, path) ==
    {VfsReadFile(bundled, fs, path, r) : r \in GetBundledFS(bundled, path)}

\* The results ReadFile of instance i can give for path.
ReadFileOf(i, path) == ReadFileIn(BundledOf(i), FsOf(i), path)

\* The registry and the store of instance i after the step.
BundledAfter(i) == bms'[insts'[i].bundledManager]

FsAfter(i) == fss'[insts'[i].fs]

\* The results ReadFile of instance i can give for path after the step.
ReadFileAfter(i, path) == ReadFileIn(BundledAfter(i), FsAfter(i), path)

\* The paths the properties read back.
ProbePaths ==
    {Slash, pA, pRelA, pD, pDA, pXA, pXD, pXS,
     <<"x", ":", "/", "/", "l", "/", "a">>,
     <<"x", ":", "/", "/", "d", "/", "a">>,
     <<"/", "x", ":", "/", "a">>}

\* What a registry and a store show of the files: ReadFile, Exists and IsDir
\* of each path.
FileViewIn(bundled, fs) ==
    [p \in ProbePaths |->
        {[ReadFile |-> VfsReadFile(bundled, fs, p, r),
          Exists   |-> VfsExists(bundled, fs, p, r),
          IsDir    |-> VfsIsDir(bundled, fs, p, r)] :
            r \in GetBundledFS(bundled, p)}]

\* What instance i shows of its files, before and after the step.
FileView(i) == FileViewIn(BundledOf(i), FsOf(i))

FileViewAfter(i) == FileViewIn(BundledAfter(i), FsAfter(i))

\* t occurs in s.
HasSub(s, t) ==
    \E k \in 1..(Len(s) - Len(t) + 1) : SubSeq(s, k, k + Len(t) - 1) = t

\* k is literally the beginning of path.
StartsWith(path, k) == Len(k) <= Len(path) /\ SubSeq(path, 1, Len(k)) = k

\* path has the form name://rest.
IsPrefixedURL(path) == HasSub(path, Sentinel)

\* path is absolute and has no redundant separator and no "." or ".." segment.
IsCleanAbs(path) ==
    /\ StartsWith(path, Slash)
    /\ ~HasSub(path, <<"/", "/">>)
    /\ Len(path) > 1 => path[Len(path)] # "/"
    /\ ~HasSub(path \o Slash, <<"/", ".", "/">>)
    /\ ~HasSub(path \o Slash, <<"/", ".", ".", "/">>)

FileMutations ==
    {"WriteFile", "MkdirAll", "Remove", "RemoveAll", "Create", "Copy", "Move", "Merge"}

(***************************************************************************)
(* C1                                                                      *)
(***************************************************************************)

\* C1: when the path given to WriteFile, MkdirAll, Remove or RemoveAll is one
\* the registry of the instance classifies as bundled, the call returns the
\* read-only error and every store and every registry is as it was before.
C1_BundledIsReadOnly ==
    [][ (/\ last'.op \in {"WriteFile", "MkdirAll", "Remove", "RemoveAll"}
         /\ IsBundledPath(BundledOf(last'.inst), last'.path))
        => /\ last'.err = ErrReadOnly
           /\ fss' = fss
           /\ bms' = bms ]_vars

\* Each of the four calls has been refused on a bundled path of a registry
\* that holds an entry.
C1_Witness ==
    /\ last.op \in {"WriteFile", "MkdirAll", "Remove", "RemoveAll"}
    /\ IsBundledPath(BundledOf(last.inst), last.path)
    /\ last.err = ErrReadOnly

(***************************************************************************)
(* C2                                                                      *)
(***************************************************************************)

\* C2: a WriteFile(p, b) that succeeds is read back by ReadFile(p) on the same
\* instance as exactly b, at once and after every later call that neither
\* writes nor removes p.
C2_RoundTrip ==
    [][ /\ (last'.op = "WriteFile" /\ last'.err = ErrNil)
           => ReadFileAfter(last'.inst, last'.path)
                 = {[data |-> last'.data, err |-> ErrNil]}
        /\ (/\ last.op = "WriteFile" /\ last.err = ErrNil
            /\ last'.op \in {"RegisterBundled", "MkdirAll"}
            /\ last'.path # last.path)
           => ReadFileAfter(last.inst, last.path)
                 = {[data |-> last.data, err |-> ErrNil]} ]_vars

(***************************************************************************)
(* C3                                                                      *)
(***************************************************************************)

\* C3: for a clone c of an instance o, a file mutation (WriteFile, MkdirAll,
\* Remove, RemoveAll, Create, Copy, Move, Merge) called on c leaves ReadFile,
\* Exists and IsDir of every path through o as they were, and one called on o
\* leaves them through c as they were.
C3_CloneIndependence ==
    [][ last'.op \in FileMutations
        => \A c \in Instances :
             LET o == insts[c].origin IN
             o # 0 =>
               /\ last'.inst = c => FileViewAfter(o) = FileView(o)
               /\ last'.inst = o => FileViewAfter(c) = FileView(c) ]_vars

\* A clone was written to with success, and now reads a file of its own
\* where its original reads another or none.
C3_Witness ==
    /\ last.op = "WriteFile"
    /\ last.err = ErrNil
    /\ insts[last.inst].origin # 0
    /\ ReadFileOf(last.inst, last.path)
          # ReadFileOf(insts[last.inst].origin, last.path)
    /\ \E p \in ProbePaths :
          \E rd \in ReadFileOf(insts[last.inst].origin, p) : rd.err = ErrNil

(***************************************************************************)
(* C4                                                                      *)
(***************************************************************************)

\* The names of the files (not directories) of a store.
FilesOf(fs) == {k \in DOMAIN fs : ~fs[k].dir}

\* C4: after a Merge(other, dest) that returned no error, each file other
\* holds at q is read in the target at dest followed by q with the bytes
\* other holds.
C4_MergeCopies ==
    [][ (last'.op = "Merge" /\ last'.err = ErrNil)
        => \A q \in FilesOf(FsOf(last'.other)) :
              ReadFileAfter(last'.inst, TrimSuffix(last'.path, Slash) \o q)
                 = {[data |-> FsOf(last'.other)[q].data, err |-> ErrNil]} ]_vars

(***************************************************************************)
(* C5                                                                      *)
(***************************************************************************)

\* The name a prefix is registered under: the prefix without the sentinel
\* it may end in.
NameOf(prefix) ==
    IF Len(prefix) >= Len(Sentinel)
       /\ SubSeq(prefix, Len(prefix) - Len(Sentinel) + 1, Len(prefix)) = Sentinel
    THEN SubSeq(prefix, 1, Len(prefix) - Len(Sentinel))
    ELSE prefix

\* The names registered in a registry, each followed by the sentinel.
Qualified(bundled) == {name \o Sentinel : name \in ListRegistered(bundled)}

\* What a lookup that has just returned must have returned.
C5_Lookup ==
    last.op = "GetBundledFS" =>
        LET bundled == BundledOf(last.inst)
            path    == last.path
            hits    == {k \in Qualified(bundled) : StartsWith(path, k)}
        IN  /\ last.ret.ok <=> hits # {}
            /\ last.ret.ok =>
                 \E k \in hits :
                    /\ last.ret.rest = SubSeq(path, Len(k) + 1, Len(path))
                    /\ k \o last.ret.rest = path
                    /\ last.ret.bundled = bundled[k]
            /\ IsBundledPath(bundled, path) <=> last.ret.ok

\* What a registration does to the registry: the entry under the name is the
\* one just registered, and the entries under the other names stay.
C5_Registration ==
    last'.op = "RegisterBundled" =>
        LET before == BundledOf(last'.inst)
            after  == BundledAfter(last'.inst)
            k      == NameOf(last'.path) \o Sentinel
        IN  /\ DOMAIN after = DOMAIN before \cup {k}
            /\ after[k] = [embedFS |-> last'.ret[1],
                           prefix  |-> NameOf(last'.path),
                           subdir  |-> last'.ret[2]]
            /\ \A j \in DOMAIN before \ {k} : after[j] = before[j]

\* C5: GetBundledFS reports found exactly when a registered name followed by
\* "://" is a literal prefix of the path; it then returns the path without
\* that name and sentinel, with the entry last registered under that name;
\* and IsBundledPath is true exactly when GetBundledFS reports found.
C5_Resolve == []C5_Lookup /\ [][C5_Registration]_vars

\* A lookup found a path under a name whose entry was registered with the
\* sentinel written out, in a registry that holds another name too.
C5_Witness ==
    /\ last.op = "GetBundledFS"
    /\ last.ret.ok
    /\ last.path = pXA
    /\ last.ret.rest = pRelA
    /\ last.ret.bundled.subdir = subL
    /\ Cardinality(DOMAIN BundledOf(last.inst)) > 1

(***************************************************************************)
(* C6                                                                      *)
(***************************************************************************)

\* The results of the seven reading operations of a store for a name.
StoreReads(fs, name) ==
    [ReadFile  |-> StoreReadFile(fs, name),
     Exists    |-> StoreExists(fs, name),
     IsDir     |-> StoreStat(fs, name).err = ErrNil /\ StoreStat(fs, name).isDir,
     Stat      |-> StoreStat(fs, name),
     ListFiles |-> StoreReadDir(fs, name, FALSE),
     ListDirs  |-> StoreReadDir(fs, name, TRUE),
     Walk      |-> IF StoreExists(fs, name)
                   THEN [visited |-> StoreWalk(fs, name), err |-> ErrNil]
                   ELSE [visited |-> <<>>, err |-> ErrNotExist]]

\* The reads of a state: those of a bundled path are what they would be over
\* an empty store, those of any other path are the store's own for the
\* normalised path, errors included.
C6_Routed ==
    \A i \in Instances, p \in ProbePaths :
        \A r \in GetBundledFS(BundledOf(i), p) :
            IF IsBundledPath(BundledOf(i), p)
            THEN /\ r.ok
                 /\ Reads(BundledOf(i), FsOf(i), p, r)
                       = Reads(BundledOf(i), NewFs, p, r)
            ELSE /\ ~r.ok
                 /\ Reads(BundledOf(i), FsOf(i), p, r)
                       = StoreReads(FsOf(i), normalizePath(BundledOf(i), p))

\* A call that leaves the registry as it is leaves the reads of every
\* bundled path as they are.
C6_WritesKept ==
    bms' = bms =>
        \A i \in Instances, p \in ProbePaths :
            IsBundledPath(BundledOf(i), p) =>
                {Reads(BundledAfter(i), FsAfter(i), p, r) :
                    r \in GetBundledFS(BundledAfter(i), p)} = ReadsOf(i, p)

\* C6: each reading operation answers for a bundled path from the registry
\* and the archive alone, whatever the store holds and whatever is written to
\* it, and for any other path from the store at the normalised path, with the
\* error the store gives.
C6_ReadRouting == []C6_Routed /\ [][C6_WritesKept]_vars

\* A store that holds a file written under a prefix before the prefix was
\* registered; the path now reads from the archive.  And a read of a path
\* that is not bundled and not in the store.
C6_Witness ==
    /\ last.op \in FileMutations
    /\ last.err = ErrNil
    /\ IsBundledPath(BundledOf(1), pXA)
    /\ ReadFileOf(1, pXA) = {EmbedReadFile("A", pRelA)}
    /\ <<"/", "x", ":", "/", "a">> \in DOMAIN FsOf(1)
    /\ ReadFileOf(1, pDA) = {[data |-> NoData, err |-> ErrNotExist]}

(***************************************************************************)
(* C7                                                                      *)
(***************************************************************************)

pAB == <<"/", "a", "/", "b">>

\* The five spellings the path /a/b is given in.
SpellingsOfAB ==
    { <<"a", "/", "b">>, pAB, <<"/", "a", "/", ".", "/", "b">>,
      <<"/", "/", "a", "/", "b">>,
      <<"/", "a", "/", "x", "/", ".", ".", "/", "b">> }

\* C7 as stated: normalizePath returns a bundled path unchanged and any
\* other path absolute and clean, so that the five spellings of /a/b all
\* give /a/b, and normalising the result again gives the result.
C7_NormalizeCleans ==
    last.op = "normalizePath" =>
        LET bundled == BundledOf(last.inst) IN
        /\ IsBundledPath(bundled, last.path) => last.ret = last.path
        /\ ~IsBundledPath(bundled, last.path) => IsCleanAbs(last.ret)
        /\ (last.path \in SpellingsOfAB /\ ~IsBundledPath(bundled, last.path))
              => last.ret = pAB
        /\ normalizePath(bundled, last.ret) = last.ret

\* C7, amended: normalizePath returns a path unchanged when it is bundled or
\* already absolute, clean or not; a relative path that is not bundled it
\* returns absolute and clean, as the clean form of "/" followed by the path;
\* normalising the result again gives the result; and the name the store
\* files the result under is absolute and clean.
C7_NormalizeAbsolute ==
    last.op = "normalizePath" =>
        LET bundled == BundledOf(last.inst) IN
        /\ IsBundledPath(bundled, last.path) => last.ret = last.path
        /\ (~IsBundledPath(bundled, last.path) /\ StartsWith(last.path, Slash))
              => last.ret = last.path
        /\ (~IsBundledPath(bundled, last.path) /\ ~StartsWith(last.path, Slash))
              => /\ IsCleanAbs(last.ret)
                 /\ last.ret = Clean(Slash \o last.path)
                 /\ IsCleanAbs(Slash \o last.path) => last.ret = Slash \o last.path
        /\ (last.path \in {<<"a", "/", "b">>, pAB}
               /\ ~IsBundledPath(bundled, last.path)) => last.ret = pAB
        /\ normalizePath(bundled, last.ret) = last.ret
        /\ ~IsBundledPath(bundled, last.path) => IsCleanAbs(StoreKey(last.ret))

\* normalizePath was given an absolute path with a "." segment and returned
\* it as it is.
C7_Witness ==
    /\ last.op = "normalizePath"
    /\ last.path = <<"/", "a", "/", ".", "/", "b">>
    /\ last.ret = last.path
    /\ StoreKey(last.ret) = pAB

(***************************************************************************)
(* C8                                                                      *)
(***************************************************************************)

\* C8: a WriteFile, MkdirAll or Create given a path of the form name://rest
\* creates no entry in the store, whether the name is registered or not, and
\* normalizePath maps no such path to a name of the store.
C8_PrefixedNeverStored ==
    [][ (/\ last'.op \in {"WriteFile", "MkdirAll", "Create"}
         /\ IsPrefixedURL(last'.path))
        => /\ DOMAIN FsAfter(last'.inst) = DOMAIN FsOf(last'.inst)
           /\ ~StartsWith(normalizePath(BundledOf(last'.inst), last'.path),
                          Slash) ]_vars

(***************************************************************************)
(* C9                                                                      *)
(***************************************************************************)

\* Instance i is a Memory or Hybrid instance, or was returned by Clone.
WithoutWatching(i) ==
    \/ insts[i].vfsType \in {VFSTypeMemory, VFSTypeHybrid}
    \/ insts[i].origin # 0

\* A call of the watch surface on such an instance: Watch, StopWatch and
\* StopAllWatches return the capability error, Close returns no error, and
\* no watch manager and no store changes.
C9_Calls ==
    (/\ last'.op \in {"Watch", "StopWatch", "StopAllWatches", "Close"}
     /\ WithoutWatching(last'.inst))
    => /\ last'.op # "Close" => last'.err = ErrNoWatch
       /\ last'.op = "Close" => last'.err = ErrNil
       /\ wms' = wms
       /\ fss' = fss
       /\ bms' = bms

\* IsWatching is false of every pattern on such an instance.
C9_NeverWatching ==
    \A i \in Instances :
        WithoutWatching(i) => \A p \in WatchPaths : ~VfsIsWatching(i, p)

\* C9: on a Memory or Hybrid instance and on a clone, in every state, Watch,
\* StopWatch and StopAllWatches return the capability error and change
\* nothing, IsWatching is false of every pattern, and Close returns no error.
C9_NoWatchSurface == []C9_NeverWatching /\ [][C9_Calls]_vars

\* Watch was refused on the clone of a disk instance that is watching the
\* pattern itself.
C9_Witness ==
    /\ last.op = "Watch"
    /\ last.err = ErrNoWatch
    /\ insts[last.inst].origin # 0
    /\ insts[insts[last.inst].origin].vfsType = VFSTypeDisk
    /\ VfsIsWatching(insts[last.inst].origin, last.path)

(***************************************************************************)
(* C10                                                                     *)
(***************************************************************************)

\* A call of the watch surface on a disk instance on which Close has
\* returned: Watch returns the error of a watch manager that is not
\* available, StopWatch and StopAllWatches return no error, and no watch
\* manager changes.
C10_Calls ==
    (/\ last'.op \in {"Watch", "StopWatch", "StopAllWatches"}
     /\ insts[last'.inst].vfsType = VFSTypeDisk
     /\ insts[last'.inst].closeReturned)
    => /\ last'.op = "Watch" => last'.err = ErrUnavailable
       /\ last'.op # "Watch" => last'.err = ErrNil
       /\ wms' = wms

\* IsWatching is false of every pattern on such an instance.
C10_NeverWatching ==
    \A i \in Instances :
        (insts[i].vfsType = VFSTypeDisk /\ insts[i].closeReturned)
            => \A p \in WatchPaths : ~VfsIsWatching(i, p)

\* C10: once Close has returned on a disk instance, every later Watch returns
\* the "not available" error and registers nothing, StopWatch and
\* StopAllWatches return no error and change nothing, and IsWatching is false
\* of every pattern.
C10_ClosedIsTerminal == []C10_NeverWatching /\ [][C10_Calls]_vars

\* Instance i is a disk instance that was given a watch manager.
OwnsWatchManager(i) ==
    insts[i].vfsType = VFSTypeDisk /\ insts[i].watchManager # NoWatchManager

\* A call of the watch surface on a disk instance on which Close has
\* returned.  With a watch manager: Watch returns the error of a watch
\* manager that is not available, StopWatch and StopAllWatches return no
\* error.  Without one: the three return the capability error.  No watch
\* manager changes.
C10_CallsOnOwner ==
    (/\ last'.op \in {"Watch", "StopWatch", "StopAllWatches"}
     /\ insts[last'.inst].vfsType = VFSTypeDisk
     /\ insts[last'.inst].closeReturned)
    => /\ OwnsWatchManager(last'.inst) =>
            /\ last'.op = "Watch" => last'.err = ErrUnavailable
            /\ last'.op # "Watch" => last'.err = ErrNil
       /\ ~OwnsWatchManager(last'.inst) => last'.err = ErrNoWatch
       /\ wms' = wms

\* C10, amended: once Close has returned on a disk instance that was given a
\* watch manager at construction, every later Watch returns the "not
\* available" error and registers nothing, StopWatch and StopAllWatches
\* return no error and change nothing, and IsWatching is false of every
\* pattern; on a disk instance that was given none, Watch, StopWatch and
\* StopAllWatches return the capability error and IsWatching is false.
C10_ClosedOwnerIsTerminal == []C10_NeverWatching /\ [][C10_CallsOnOwner]_vars

\* Watch was refused as not available on a closed disk instance whose watch
\* manager still holds the pattern registered before Close.
C10_Witness ==
    /\ last.op = "Watch"
    /\ last.err = ErrUnavailable
    /\ OwnsWatchManager(last.inst)
    /\ insts[last.inst].closeReturned
    /\ last.path \in WmOf(last.inst).watches
    /\ WmOf(last.inst).native = {}

(***************************************************************************)
(* C11                                                                     *)
(***************************************************************************)

\* A watch manager without the bookkeeping of the Close calls in flight.
Settled(wm) ==
    [wm EXCEPT !.closing = [lock |-> 0, watcher |-> 0], !.released = 0]

\* A Close has run to its end on instance i: it returned on an instance
\* without a watch manager, or it closed the fsnotify watcher.
FirstCloseDone(i) ==
    IF insts[i].watchManager = NoWatchManager THEN insts[i].closeReturned
    ELSE WmOf(i).released > 0

\* A step of a Close call on an instance on which a Close has run to its
\* end already, be it a later call, which returns at the check, or a call
\* that overlapped the first: every watch manager, store and prefix map is
\* as it was, and a call that returns returns no error.
C11_LaterCloseSteps ==
    (/\ last'.op \in {"Close", "Close.check", "Close.mark"}
     /\ ops' # ops \/ wms' # wms
     /\ FirstCloseDone(last'.inst))
    => /\ last'.op = "Close" => last'.err = ErrNil
       /\ DOMAIN wms' = DOMAIN wms
       /\ \A w \in DOMAIN wms : Settled(wms'[w]) = Settled(wms[w])
       /\ fss' = fss
       /\ bms' = bms

\* Whatever the number of Close calls made, once none is in flight the watch
\* manager is as one Close leaves it: closed, with the fsnotify watcher
\* closed and no native registration.
C11_AsOneClose ==
    \A i \in Instances :
        (/\ insts[i].watchManager # NoWatchManager
         /\ insts[i].closeReturned
         /\ WmOf(i).closing = [lock |-> 0, watcher |-> 0])
        => Settled(WmOf(i)) =
              Settled(WmClose([WmOf(i) EXCEPT !.closed = FALSE]).wm)

\* C11: Close is idempotent.  On an instance of any type, once a Close has
\* run to its end, every later Close, and every Close that overlapped it,
\* returns no error and leaves the state as the first Close left it; when
\* the calls have returned the state is the one a single Close leaves.
C11_CloseIdempotent == []C11_AsOneClose /\ [][C11_LaterCloseSteps]_vars

\* Two overlapping Close calls on a disk instance with a registration both
\* passed the check of closed, both closed the fsnotify watcher, and both
\* have returned.
C11_Witness ==
    /\ last.op = "Close"
    /\ last.err = ErrNil
    /\ OwnsWatchManager(last.inst)
    /\ insts[last.inst].closeReturned
    /\ WmOf(last.inst).released = 2
    /\ WmOf(last.inst).closing = [lock |-> 0, watcher |-> 0]
    /\ WmOf(last.inst).watches # {}

(***************************************************************************)
(* C12                                                                     *)
(***************************************************************************)

\* C12: Close stops all watches.  Once Close has returned on a disk instance
\* with a watch manager, the pattern-to-callback map is empty and no native
\* registration is left.
C12_CloseStopsAll ==
    \A i \in Instances :
        (OwnsWatchManager(i) /\ insts[i].closeReturned)
            => /\ WmOf(i).watches = {}
               /\ WmOf(i).native = {}

(***************************************************************************)
(* C13                                                                     *)
(***************************************************************************)

\* C13: a callback that blocks for good cannot stall the watch subsystem.
\* processEvents is never the one waiting for a blocked callback (a blocked
\* invocation runs in a goroutine of its own), so that it goes on receiving
\* native events and errors and calling the other callbacks.
C13_LoopNeverStalls ==
    \A i \in Watchers :
        \A c \in WmOf(i).calls : c.pc = "blocked" => c.by # "loop"

(***************************************************************************)
(* C14                                                                     *)
(***************************************************************************)

\* C14: a panic raised inside a callback is caught where the callback is
\* dispatched, for a file event and for a native error alike: no invocation
\* ends in a panic that was not recovered, and processEvents keeps running.
C14_PanicsAreCaught ==
    \A i \in Watchers :
        /\ WmOf(i).loop # LoopPanicked
        /\ \A c \in WmOf(i).calls : c.pc # "panicked"

(***************************************************************************)
(* C15                                                                     *)
(***************************************************************************)

\* Invocation c waits for mu while the goroutine that called it holds the
\* read lock until it returns.
SelfDeadlocked(wm, c) ==
    /\ c.pc = "locking"
    /\ c.by = "loop"
    /\ wm.rlocks > 0

\* C15: mu is never held across a callback, so that a callback that calls
\* Watch, StopWatch, StopAllWatches or Close on its own instance is never
\* left waiting for a lock its own caller holds.
C15_NoLockAcrossCallback ==
    \A i \in Watchers :
        \A c \in WmOf(i).calls : ~SelfDeadlocked(WmOf(i), c)

(***************************************************************************)
(* C16                                                                     *)
(***************************************************************************)

\* The invocations that answer native event or error id.
Answers(wm, id) == {c \in wm.calls : c.id = id}

\* processEvents takes a native error: the callbacks to call are those of
\* the patterns registered at that moment.
C16_Taken ==
    \A i \in Watchers :
        (wms'[insts[i].watchManager].loop = LoopBroadcast
           /\ WmOf(i).loop = LoopSelect)
        => wms'[insts[i].watchManager].todo = WmOf(i).watches

\* Every invocation that answers a native error carries the error and the
\* pattern, was made by processEvents, and is the only one for its pattern.
C16_Carried ==
    \A i \in Watchers :
        \A c \in WmOf(i).calls :
            (c.by = "loop" \/ c.event.Error # ErrNil)
            => /\ c.by = "loop"
               /\ c.event.Error = ErrNative
               /\ \A d \in Answers(WmOf(i), c.id) : d.pattern = c.pattern => d = c

\* processEvents does not leave the broadcast of a native error with a
\* callback of a registered pattern still to call.
C16_AllCalled ==
    \A i \in Watchers :
        WmOf(i).loop # LoopBroadcast => WmOf(i).todo = {}

\* C16: when the fsnotify watcher reports an error of its own, every callback
\* registered at that moment is called exactly once with an event that
\* carries the error, and none receives it as a change of a file.
C16_ErrorBroadcast ==
    /\ [][C16_Taken]_vars
    /\ [](C16_Carried /\ C16_AllCalled)

(***************************************************************************)
(* C17                                                                     *)
(***************************************************************************)

\* The logical path of a disk name below the root: the name made relative
\* to the root, with a slash before it.
LogicalPath(rootPath, name) == SubSeq(name, Len(rootPath) + 1, Len(name))

\* Pattern P covers logical path L.
Covers(P, L) ==
    \/ L = P
    \/ P = Slash
    \/ StartsWith(L, P \o Slash)
    \/ Match(P, L)

\* handleEvent runs for a native event: one goroutine is started for each
\* registered pattern that covers the logical path of the event, none for
\* any other pattern, and the event each is to pass carries that path.
C17_Dispatch ==
    last'.op = "handleEvent" =>
        LET w     == insts[last'.inst].watchManager
            wm    == wms[w]
            e     == Head(wm.events)
            L     == LogicalPath(wm.rootPath, e.name)
            begun == wms'[w].calls \ wm.calls
        IN  /\ StartsWith(e.name, wm.rootPath \o Slash)
            /\ wm.calls \subseteq wms'[w].calls
            /\ Answers(wm, e.id) = {}
            /\ \A c \in begun :
                  /\ c.id = e.id
                  /\ c.by = "go"
                  /\ c.pc = "spawned"
                  /\ c.event.Path = L
                  /\ c.event.Error = ErrNil
            /\ \A P \in wm.watches \cup EventPatterns :
                  Cardinality({c \in begun : c.pattern = P})
                      = IF P \in wm.watches /\ Covers(P, L) THEN 1 ELSE 0

\* A goroutine calls its callback once: no invocation is ever back at its
\* start, and no step but handleEvent starts one.
C17_Once ==
    \A w \in DOMAIN wms :
        \A c \in wms'[w].calls :
            c.pc = "spawned" => \/ c \in wms[w].calls
                                \/ last'.op = "handleEvent"

\* C17: for a native event of logical path L, the callback registered under
\* pattern P is called exactly once if L = P, or P is "/", or L lies below
\* directory P, or P matches L as a glob, and is not called otherwise; the
\* event it is passed carries L, the disk path relative to the root with a
\* slash before it.
C17_PatternMatching == [][C17_Dispatch /\ C17_Once]_vars

\* handleEvent ran for the creation of /d/a while /d and /* were registered:
\* the callback of /d is to be called with path /d/a, that of /* is not.
C17_Witness ==
    /\ last.op = "handleEvent"
    /\ {pD, pStar} \subseteq WmOf(last.inst).watches
    /\ \E c \in WmOf(last.inst).calls :
          /\ c.pattern = pD
          /\ c.event.Path = pDA
          /\ c.event.Op = WatchOpCreate
          /\ \A d \in Answers(WmOf(last.inst), c.id) : d.pattern # pStar

(***************************************************************************)
(* C18                                                                     *)
(***************************************************************************)

\* WriteFile has just written the file /a of the root directory, new or
\* already there, on an instance that watches "/".
C18_Written ==
    /\ last.op = "WriteFile"
    /\ last.err = ErrNil
    /\ last.path = pA
    /\ last.inst \in Watchers
    /\ Slash \in WmOf(last.inst).watches

\* The callback of "/" was called with a Create or Write event of path /a.
C18_Delivered ==
    \E i \in Watchers :
        \E c \in WmOf(i).calls :
            /\ c.pattern = Slash
            /\ c.pc # "spawned"
            /\ c.event.Path = pA
            /\ c.event.Op \in {WatchOpCreate, WatchOpWrite}

\* C18: delivery.  On a disk instance that watches "/", a write of a file of
\* the root directory, the first as well as the one that overwrites it,
\* leads to a call of the callback with a Create or Write event whose path
\* is the logical path of the file, whatever the callbacks called before did.
C18_DeliveryLiveness == C18_Written ~> C18_Delivered

\* /a was written and then overwritten while "/" was watched: the three
\* native events of the two writes were dispatched, and the callback was
\* called for the last of them.
C18_Witness ==
    /\ C18_Delivered
    /\ \E i \in Watchers :
          LET got == {c \in WmOf(i).calls :
                         c.pattern = Slash /\ c.event.Path = pA}
          IN  /\ Cardinality(got) = 3
              /\ \E c \in got : /\ c.pc # "spawned"
                                /\ \A d \in got : d.id <= c.id

(***************************************************************************)
(* C19                                                                     *)
(***************************************************************************)

\* StopAllWatches returns on a disk instance with a watch manager: no native
\* registration and no association is left.
C19_Returned ==
    (/\ last'.op = "StopAllWatches"
     /\ OwnsWatchManager(last'.inst)
     /\ last'.err = ErrNil)
    => /\ wms'[insts[last'.inst].watchManager].native = {}
       /\ wms'[insts[last'.inst].watchManager].watches = {}

\* C19: once StopAllWatches has returned, every native registration is
\* removed and the pattern-to-callback map is empty, whatever the patterns
\* watched before, "/" included, so that no callback is called for a native
\* event of a later write.
C19_StopAllWatchesStops == [][C19_Returned]_vars

(***************************************************************************)
(* C20                                                                     *)
(***************************************************************************)

\* StopWatch(p) returns on a disk instance with a watch manager that is not
\* closed: it returns no error, the association of p is gone, and every
\* other pattern keeps its association and its native registration.
C20_Returned ==
    (/\ last'.op = "StopWatch"
     /\ OwnsWatchManager(last'.inst)
     /\ ~WmOf(last'.inst).closed)
    => LET wm    == WmOf(last'.inst)
           after == wms'[insts[last'.inst].watchManager]
       IN  /\ last'.err = ErrNil
           /\ after.watches = wm.watches \ {last'.path}
           /\ last'.path \in wm.watches =>
                 WatchDiskPath(wm.rootPath, last'.path) \notin after.native
           /\ \A q \in wm.watches \ {last'.path} :
                 WatchDiskPath(wm.rootPath, q) \in wm.native
                     => WatchDiskPath(wm.rootPath, q) \in after.native
           /\ WmStopWatch(after, last'.path).wm = after

\* C20: StopWatch(p) removes the native registration and the association of
\* p; a second call changes nothing more; and a call for a pattern that is
\* not watched returns no error and leaves the association and the native
\* registration of every other pattern as they were.
C20_StopWatchIdempotent == [][C20_Returned]_vars

(***************************************************************************)
(* C21                                                                     *)
(***************************************************************************)

\* IsWatching(p) on instance i, in the state after the step.
IsWatchingAfter(i, p) ==
    /\ insts'[i].watchManager # NoWatchManager
    /\ ~wms'[insts'[i].watchManager].closed
    /\ p \in wms'[insts'[i].watchManager].watches

\* The fsnotify watcher of disk instance i cannot observe the disk path of
\* pattern p: nothing exists at that path under the root.
Unobservable(i, p) ==
    /\ OwnsWatchManager(i)
    /\ ~DiskPathExists(FsOf(i), WmOf(i).rootPath,
                       WatchDiskPath(WmOf(i).rootPath, p))

\* Watch of a pattern whose disk path cannot be observed returns an error,
\* and a Watch that returns an error changes no watch manager.
C21_Failed ==
    last'.op = "Watch" =>
        /\ Unobservable(last'.inst, last'.path) => last'.err # ErrNil
        /\ last'.err # ErrNil => wms' = wms

\* A Watch that returns no error leaves IsWatching true of its pattern.
C21_Succeeded ==
    (last'.op = "Watch" /\ last'.err = ErrNil)
        => IsWatchingAfter(last'.inst, last'.path)

\* IsWatching(p) stays true over every step but StopWatch(p), StopAllWatches
\* and Close on the instance.
C21_Kept ==
    \A i \in Instances, p \in WatchPaths :
        (/\ VfsIsWatching(i, p)
         /\ ~(/\ last'.inst = i
              /\ \/ last'.op = "StopWatch" /\ last'.path = p
                 \/ last'.op \in {"StopAllWatches", "Close"}))
        => IsWatchingAfter(i, p)

\* C21: Watch(p, cb) returns an error when the fsnotify watcher cannot
\* observe the disk path of p, and a failed Watch stores nothing: IsWatching
\* and every registration are as before; after a Watch that succeeded,
\* IsWatching(p) is true until StopWatch(p), StopAllWatches or Close.
C21_WatchFailsCleanly ==
    [][C21_Failed /\ C21_Succeeded /\ C21_Kept]_vars

\* Watch of the missing directory /d failed on a disk instance that is
\* watching its root, and the root is still watched.
C21_Witness ==
    /\ last.op = "Watch"
    /\ last.path = pD
    /\ last.err = ErrWatchFailed
    /\ VfsIsWatching(last.inst, Slash)
    /\ ~VfsIsWatching(last.inst, pD)
    /\ WmOf(last.inst).native = {WmOf(last.inst).rootPath}

(***************************************************************************)
(* C22                                                                     *)
(***************************************************************************)

\* processEvents has returned only if a Close called watcher.Close.
C22_NotBeforeClose ==
    \A i \in Watchers :
        WmOf(i).loop = LoopReturned => WmOf(i).released > 0

\* Close has closed the fsnotify watcher, and with it the channels.
C22_ChannelsClosed == \E i \in Watchers : WmOf(i).watcherClosed

\* processEvents has returned.
C22_Exited == \A i \in Watchers : WmOf(i).loop = LoopReturned

\* C22: the event loop of a disk instance ends after Close: once Close has
\* closed the channels of the fsnotify watcher, processEvents eventually
\* returns, and it never returns before Close is called.
C22_LoopExitsAfterClose ==
    /\ []C22_NotBeforeClose
    /\ C22_ChannelsClosed ~> C22_Exited

(***************************************************************************)
(* C23                                                                     *)
(***************************************************************************)

\* The elements of a slice.
Elems(s) == {s[k] : k \in DOMAIN s}

\* No element of the slice occurs twice.
NoDuplicates(s) == \A a, b \in DOMAIN s : a # b => s[a] # s[b]

\* A registration through instance i: whatever slice ListRegistered could
\* return before and whatever slice it can return after, the names after are
\* the names before and the name of the prefix registered, each once.
C23_Registered ==
    last'.op = "RegisterBundled" =>
        \A before \in ListRegisteredSlices(BundledOf(last'.inst)),
           after \in ListRegisteredSlices(BundledAfter(last'.inst)) :
            /\ Elems(after) = Elems(before) \cup {NameOf(last'.path)}
            /\ NoDuplicates(after)
            /\ NameOf(last'.path) \in Elems(before) => Len(after) = Len(before)

\* No other call changes a registry.
C23_OnlyRegister == last'.op # "RegisterBundled" => bms' = bms

\* A slice ListRegistered has just returned holds no name twice, and holds
\* no name at all before the first registration.
C23_Listed ==
    last.op = "ListRegistered" =>
        /\ NoDuplicates(last.ret)
        /\ Elems(last.ret) = ListRegistered(BundledOf(last.inst))
        /\ BundledOf(last.inst) = NewBundledManager => last.ret = << >>

\* C23: after any sequence of Register calls, ListRegistered returns the
\* names of the prefixes registered, the sentinel stripped, each exactly
\* once, whatever the order of the registrations; registering a prefix
\* again, with or without the sentinel, adds no second element.
C23_ListIsTheRegisteredSet ==
    []C23_Listed /\ [][C23_Registered /\ C23_OnlyRegister]_vars

\* ListRegistered returned the two names x and x://y of a registry whose
\* key x:// was last registered with the sentinel, as x://.
C23_Witness ==
    /\ last.op = "ListRegistered"
    /\ Len(last.ret) = 2
    /\ Elems(last.ret) = {pX, pXY}
    /\ BundledOf(last.inst)[pXS].subdir = subL

(***************************************************************************)
(* C24                                                                     *)
(***************************************************************************)

\* The paths a registry is probed with: the paths looked up and the keys of
\* the registry.  (A path that two keys are a prefix of has the longer key
\* as a prefix, so that the longer key is such a path when there is one.)
OverlapProbes(bundled) == OverlapPaths \cup DOMAIN bundled

\* Two runs of GetBundledFS over the registry can return different entries
\* for some path.
TwoAnswers(bundled) ==
    \E path \in OverlapProbes(bundled) :
        \E r1, r2 \in GetBundledFS(bundled, path) :
            r1.ok /\ r2.ok /\ bundled[r1.key] # bundled[r2.key]

\* Two names are registered of which one is a literal prefix of the other.
NamesOverlap(bundled) ==
    \E n1, n2 \in ListRegistered(bundled) : n1 # n2 /\ HasPrefix(n2, n1)

\* Two names are registered of which one, followed by the sentinel, is a
\* literal prefix of the other.
KeysOverlap(bundled) ==
    \E n1, n2 \in ListRegistered(bundled) :
        n1 # n2 /\ HasPrefix(n2, n1 \o Sentinel)

\* C24: when two registered prefixes are literal prefixes of each other
\* (a and ab), GetBundledFS is non-deterministic: there is a path for which
\* two runs over the same registry can return different entries.
C24_OverlapIsNondeterministic ==
    \A i \in Instances :
        NamesOverlap(BundledOf(i)) => TwoAnswers(BundledOf(i))

\* C24, amended: there is a path for which two runs of GetBundledFS over the
\* same registry can return different entries exactly when one registered
\* prefix followed by "://" is a literal prefix of another registered prefix
\* (x and x://y); for prefixes of which one is only a literal prefix of the
\* other (a and ab) every lookup has one answer.
C24_KeyOverlapIsNondeterministic ==
    \A i \in Instances :
        KeysOverlap(BundledOf(i)) <=> TwoAnswers(BundledOf(i))

\* The lookup of x://y://a returned the entry of x, with y://a left over, in
\* a registry that holds x, x://y, a and ab: the entry of x://y was the other
\* answer.
C24_Witness ==
    /\ last.op = "GetBundledFS"
    /\ last.path = pXYA
    /\ last.ret.ok
    /\ last.ret.bundled.prefix = pX
    /\ Cardinality(GetBundledFS(BundledOf(last.inst), pXYA)) = 2
    /\ ListRegistered(BundledOf(last.inst)) = {pRelA, pAB2, pX, pXY}

(***************************************************************************)
(* C25                                                                     *)
(***************************************************************************)

\* The paths the registries are probed with.
RegistryProbes == {pXA, pXD, pXS, pA, pRelA}

\* What GetBundledFS can return for a path: the remainder and the entry.
Resolved(bundled, path) ==
    {IF r.ok THEN [ok |-> TRUE, rest |-> r.rest, entry |-> bundled[r.key]]
     ELSE [ok |-> FALSE] : r \in GetBundledFS(bundled, path)}

\* A clone and its original classify and resolve every path alike.
C25_SameRegistry ==
    \A c \in Instances :
        LET o == insts[c].origin IN
        o # 0 =>
            \A p \in RegistryProbes :
                /\ IsBundledPath(BundledOf(c), p) = IsBundledPath(BundledOf(o), p)
                /\ Resolved(BundledOf(c), p) = Resolved(BundledOf(o), p)

\* A registration through an instance is seen through its clones and through
\* its original: the paths under the prefix are bundled there and resolve to
\* the entry just registered.
C25_SeenThroughBoth ==
    last'.op = "RegisterBundled" =>
        \A j \in Instances :
            (insts[j].origin = last'.inst \/ insts[last'.inst].origin = j) =>
                LET path == NameOf(last'.path) \o Sentinel \o pRelA IN
                /\ IsBundledPath(BundledAfter(j), path)
                /\ Resolved(BundledAfter(j), path) =
                      {[ok |-> TRUE, rest |-> pRelA,
                        entry |-> [embedFS |-> last'.ret[1],
                                   prefix  |-> NameOf(last'.path),
                                   subdir  |-> last'.ret[2]]]}

\* C25: a clone shares the prefix map of its original: a prefix registered
\* through either of them, before or after the Clone, is classified as
\* bundled and resolves to the same entry through both.
C25_CloneSharesRegistry == []C25_SameRegistry /\ [][C25_SeenThroughBoth]_vars

\* A prefix was registered through a clone after the Clone, and the original
\* resolves a path under it.
C25_Witness ==
    /\ last.op = "RegisterBundled"
    /\ insts[last.inst].origin # 0
    /\ IsBundledPath(BundledOf(insts[last.inst].origin), pXA)
    /\ Resolved(BundledOf(insts[last.inst].origin), pXA) =
          Resolved(BundledOf(last.inst), pXA)

(***************************************************************************)
(* C26                                                                     *)
(***************************************************************************)

\* The store name key lies in the subtree of dest: the cleaned dest, joined
\* onto the root when it is relative, or a name below it.
UnderDest(key, dest) ==
    LET root == Join(Slash, dest) IN
    \/ key = root
    \/ root = Slash
    \/ HasPrefix(key, root \o Slash)

\* The files of the store fs outside the subtree of dest, with their bytes.
FilesOutside(fs, dest) ==
    {<<k, fs[k].data>> : k \in {f \in FilesOf(fs) : ~UnderDest(f, dest)}}

\* C26: Merge(other, dest), whatever it returns, changes nothing outside the
\* subtree of dest in the target: the files that are not under dest are the
\* same before and after, with the same bytes; the store of other, the store
\* of every instance but the target, and the registries are unchanged.
C26_MergeFrame ==
    [][ last'.op = "Merge" =>
          /\ FilesOutside(FsAfter(last'.inst), last'.path)
                = FilesOutside(FsOf(last'.inst), last'.path)
          /\ FsAfter(last'.other) = FsOf(last'.other)
          /\ \A j \in Instances :
                insts[j].fs # insts[last'.inst].fs => FsAfter(j) = FsOf(j)
          /\ bms' = bms ]_vars

\* Merge into /d returned no error on a target that holds the file /a
\* outside /d: the target holds /a as before and the file /d/a of other.
C26_Witness ==
    /\ last.op = "Merge"
    /\ last.err = ErrNil
    /\ last.path = pD
    /\ pA \in FilesOf(FsOf(last.inst))
    /\ pA \in FilesOf(FsOf(last.other))
    /\ pDA \in FilesOf(FsOf(last.inst))
    /\ FsOf(last.inst)[pDA].data = FsOf(last.other)[pA].data

(***************************************************************************)
(* C27                                                                     *)
(***************************************************************************)

\* What Copy(src, dst) can return on instance i, with the store it leaves.
CopyResults(i, src, dst) ==
    {VfsCopy(BundledOf(i), FsOf(i), src, dst, r1, r2) :
        r1, r2 \in GetBundledFS(BundledOf(i), src)}

\* The bytes ReadFile can return for a path on instance i before the step,
\* and after it.
BytesOf(i, path) == {rd.data : rd \in {r \in ReadFileOf(i, path) : r.err = ErrNil}}

BytesAfter(i, path) ==
    {rd.data : rd \in {r \in ReadFileAfter(i, path) : r.err = ErrNil}}

\* A Move that has just returned went as one of the Copy calls followed, if
\* the Copy returned no error, by Remove(src).  When the Copy failed, its
\* error is returned, the store is as the Copy left it, and src reads as
\* before.  When the Copy succeeded and Remove failed, the error of Remove
\* is returned and src and dst both read the bytes src held.
C27_Moved ==
    last'.op = "Move" =>
        LET i   == last'.inst
            src == last'.path
            dst == last'.dst
        IN  \E cp \in CopyResults(i, src, dst) :
              IF cp.err # ErrNil
              THEN /\ last'.err = cp.err
                   /\ FsAfter(i) = cp.fs
                   /\ ReadFileAfter(i, src) = ReadFileOf(i, src)
              ELSE LET rm == VfsRemove(BundledOf(i), cp.fs, src) IN
                   /\ last'.err = rm.err
                   /\ rm.err # ErrNil =>
                        /\ FsAfter(i) = cp.fs
                        /\ ReadFileAfter(i, src) = ReadFileOf(i, src)
                        /\ BytesAfter(i, dst) # {}
                        /\ BytesAfter(i, dst) \subseteq BytesOf(i, src)
                   /\ rm.err = ErrNil => BytesAfter(i, src) = {}

\* C27: Move(src, dst) is Copy followed by Remove(src), with no rollback: when
\* Copy fails its error is returned and src is untouched; when Copy succeeds
\* and Remove(src) fails, as for a bundled src, Move returns that error and
\* src and dst both hold the content.
C27_MoveIsCopyThenRemove == [][C27_Moved]_vars

\* Move of the bundled file x://a to /a returned the read-only error of
\* Remove, and /a now holds the bytes x://a still holds.
C27_Witness ==
    /\ last.op = "Move"
    /\ last.path = pXA
    /\ last.dst = pA
    /\ last.err = ErrReadOnly
    /\ BytesOf(last.inst, pA) # {}
    /\ BytesOf(last.inst, pA) \subseteq BytesOf(last.inst, pXA)

(***************************************************************************)
(* C28                                                                     *)
(***************************************************************************)

\* The entry a store holds under a name, if any.
EntryAt(fs, key) == IF key \in DOMAIN fs THEN <<fs[key]>> ELSE << >>

\* The entry a walk leaves where it copied a directory, or a file of bytes
\* data.
Copied(asDir, data) ==
    <<[dir |-> asDir, data |-> IF asDir THEN NoData ELSE data]>>

\* A walk over n entries that returned err stopped at its first failing
\* sub-operation: there is an entry k that fails, with err its error, every
\* entry before k is done, and every entry from k on is untouched; or no
\* entry fails, err is nil and every entry is done.
StoppedAtFirstFailure(n, err, Fails(_), Done(_), Untouched(_)) ==
    \E k \in 1..(n + 1) :
        /\ (k = n + 1) <=> (err = ErrNil)
        /\ k <= n => Fails(k)
        /\ \A m \in 1..n : IF m < k THEN Done(m) ELSE Untouched(m)

\* Merge(other, dest): the entries are the files other holds, in the order
\* of the walk, each copied to dest joined with its name.
C28_Merge ==
    last'.op = "Merge" =>
        LET i    == last'.inst
            j    == last'.other
            dest == last'.path
        IN
        Then(SelectSeq(StoreWalk(FsOf(j), Slash), LAMBDA q : ~FsOf(j)[q].dir),
             LAMBDA entries :
        Then([m \in 1..Len(entries) |->
                 Join(Slash, Join(dest, TrimPrefix(entries[m], Slash)))],
             LAMBDA to :
            /\ StoppedAtFirstFailure(Len(entries), last'.err,
                 LAMBDA k : MergeFile(BundledOf(i), FsAfter(i), BundledOf(j),
                                      FsOf(j), dest, entries[k]).err = last'.err,
                 LAMBDA m : EntryAt(FsAfter(i), to[m])
                               = Copied(FALSE, FsOf(j)[entries[m]].data),
                 LAMBDA m : EntryAt(FsAfter(i), to[m]) = EntryAt(FsOf(i), to[m]))
            /\ FsAfter(j) = FsOf(j)))

\* LoadFromDisk(src, dest): the entries are the directories and files of the
\* OS filesystem from src on, each copied to dest joined with its name
\* relative to src.
C28_Load ==
    last'.op = "LoadFromDisk" =>
        LET i    == last'.inst
            src  == last'.path
            dest == last'.dst
            os   == fss[OsId]
        IN
        Then(StoreWalk(os, src), LAMBDA entries :
        Then([m \in 1..Len(entries) |->
                 Join(Slash, Join(dest, Rel(src, entries[m]).path))],
             LAMBDA to :
            /\ ~StoreExists(os, src) => last'.err = ErrNotExist
            /\ StoreExists(os, src) =>
                 StoppedAtFirstFailure(Len(entries), last'.err,
                   LAMBDA k : LoadFile(BundledOf(i), FsAfter(i), os, src, dest,
                                       entries[k]).err = last'.err,
                   LAMBDA m : EntryAt(FsAfter(i), to[m])
                                 = Copied(os[entries[m]].dir, os[entries[m]].data),
                   LAMBDA m : EntryAt(FsAfter(i), to[m]) = EntryAt(FsOf(i), to[m]))
            /\ fss'[OsId] = os))

\* SaveToDisk(src, dest): the entries are the directories and files of the
\* store from src on, each copied to dest joined with its name relative to
\* src, in the OS filesystem.
C28_Save ==
    last'.op = "SaveToDisk" =>
        LET i    == last'.inst
            src  == normalizePath(BundledOf(i), last'.path)
            dest == last'.dst
            fs   == FsOf(i)
            os   == fss[OsId]
        IN
        Then(StoreWalk(fs, src), LAMBDA entries :
        Then([m \in 1..Len(entries) |->
                 Join(Slash, Join(dest, Rel(src, entries[m]).path))],
             LAMBDA to :
            /\ ~StoreExists(fs, src) => last'.err = ErrNotExist
            /\ StoreExists(fs, src) =>
                 StoppedAtFirstFailure(Len(entries), last'.err,
                   LAMBDA k : SaveFile(BundledOf(i), fs, fss'[OsId], src, dest,
                                       entries[k]).err = last'.err,
                   LAMBDA m : EntryAt(fss'[OsId], to[m])
                                 = Copied(fs[entries[m]].dir, fs[entries[m]].data),
                   LAMBDA m : EntryAt(fss'[OsId], to[m]) = EntryAt(os, to[m]))
            /\ FsAfter(i) = fs))

\* C28: in Merge, LoadFromDisk and SaveToDisk the first failing sub-operation
\* stops the walk: its error is returned, no entry after it in the order of
\* the walk is read or written, and every entry written before it stays in
\* place.
C28_FirstFailureStopsWalk == [][C28_Merge /\ C28_Load /\ C28_Save]_vars

\* LoadFromDisk("/", "/") stopped at the directory d of the OS filesystem,
\* which a file of the store is in the way of: the file a, visited before,
\* is loaded, and the file d/a, visited after, is not.
C28_Witness ==
    /\ last.op = "LoadFromDisk"
    /\ last.path = Slash
    /\ last.dst = Slash
    /\ last.err = ErrNotDir
    /\ EntryAt(FsOf(last.inst), pA) = EntryAt(fss[OsId], pA)
    /\ ~FsOf(last.inst)[pD].dir
    /\ fss[OsId][pD].dir
    /\ pDA \in DOMAIN fss[OsId]
    /\ pDA \notin DOMAIN FsOf(last.inst)

(***************************************************************************)
(* C29                                                                     *)
(***************************************************************************)

\* The destination of the Merge or LoadFromDisk that was just made.
WalkDest(call) == IF call.op = "Merge" THEN call.path ELSE call.dst

\* C29: a Merge or a LoadFromDisk whose destPath is classified bundled
\* returns the read-only error and leaves the mutable store as it was.
C29_BundledDestIsReadOnly ==
    [][ ( /\ last'.op \in {"Merge", "LoadFromDisk"}
          /\ IsBundledPath(BundledOf(last'.inst), WalkDest(last')) )
        => /\ last'.err = ErrReadOnly
           /\ FsAfter(last'.inst) = FsOf(last'.inst) ]_vars

\* Merge(other, "x://d") with x registered and other holding the file /a
\* returned nil and left the file /x:/d/a in the mutable store.
C29_WrittenBesideTheBundle ==
    /\ last.op = "Merge"
    /\ last.path = pXD
    /\ IsBundledPath(BundledOf(last.inst), pXD)
    /\ last.err = ErrNil
    /\ <<"/", "x", ":", "/", "d", "/", "a">> \in DOMAIN FsOf(last.inst)

(***************************************************************************)
(* C30                                                                     *)
(***************************************************************************)

\* The lines a writer holds, as a set.
Lines(out) == {out[k] : k \in 1..Len(out)}

\* A Dump to the nil writer returned an error: it neither returned nil nor
\* panicked.
C30_NilWriterIsAnError ==
    (last'.op = "Dump" /\ last'.writer = NilWriter)
        => last'.err \notin {ErrNil, ErrPanic}

\* A Dump to a buffer, whatever was called before it, returned nil and
\* wrote the root marker; no Dump changes the instances, the stores or the
\* registries.
C30_InstanceStaysUsable ==
    /\ (last'.op = "Dump" /\ last'.writer = Buffer)
          => last'.err = ErrNil /\ RootMarker \in Lines(last'.ret)
    /\ last'.op = "Dump" => UNCHANGED <<insts, fss, bms, wms>>

\* C30: Dump with a nil writer returns an error instead of panicking, and
\* leaves the instance usable: a following Dump with a valid writer on the
\* same instance succeeds and writes the root marker.
C30_DumpToNilWriterFails ==
    [][C30_NilWriterIsAnError /\ C30_InstanceStaysUsable]_vars

\* What holds of the instance: every Dump to a buffer succeeds and writes
\* the root marker, after a Dump to the nil writer too.
C30_UsableAfterPanic == [][C30_InstanceStaysUsable]_vars

\* Dump(nil) panicked.
C30_PanickedOnNil ==
    /\ last.op = "Dump"
    /\ last.writer = NilWriter
    /\ last.err = ErrPanic

(***************************************************************************)
(* C31                                                                     *)
(***************************************************************************)

\* The outputs Dump to a buffer can produce for instance j.
DumpOutputs(j) ==
    UNION {{VfsDump(BundledOf(j), FsOf(j), Buffer, prefixes, rs).out :
               rs \in DumpResolutions(BundledOf(j), prefixes)} :
           prefixes \in ListRegisteredSlices(BundledOf(j))}

\* The lines of the mutable tree in an output: those after the root marker
\* and before the empty line that starts the bundled part.
RECURSIVE TreeLines(_, _)
TreeLines(out, k) ==
    IF k > Len(out) \/ out[k] = <<>> THEN <<>>
    ELSE <<out[k]>> \o TreeLines(out, k + 1)

\* The depth of a line of a tree (the strings before its connector) and the
\* name it shows (the characters after it).
RECURSIVE Depth(_)
Depth(line) ==
    IF line = <<>> \/ line[1] \in {ConnectorMid, ConnectorLast} THEN 0
    ELSE 1 + Depth(Tail(line))

Shown(line) == SubSeq(line, Depth(line) + 2, Len(line))

\* In the lines t of a tree, siblings are in alphabetical order: a line and
\* the next line of the same depth, with no line of a lesser depth between
\* them, show names in ascending order.
SiblingsSorted(t) ==
    \A a, b \in 1..Len(t) :
        ( /\ a < b
          /\ Depth(t[a]) = Depth(t[b])
          /\ \A c \in (a + 1)..(b - 1) : Depth(t[c]) > Depth(t[a]) )
        => StrLess(Shown(t[a]), Shown(t[b]))

\* In the lines t of the tree of store fs, the line of each entry is followed
\* at once by the lines of what the store holds below it, and by no others.
\* The line of an entry is found by descending from the root.
SubtreeFollows(t, fs) ==
    /\ Len(t) = Cardinality(DOMAIN fs \ {Slash})
    /\ \A a \in 1..Len(t) :
          LET below == {b \in (a + 1)..Len(t) :
                           \A c \in (a + 1)..b : Depth(t[c]) > Depth(t[a])}
          IN  \E key \in DOMAIN fs \ {Slash} :
                 /\ Base(key) = Shown(t[a])
                 /\ Depth(t[a]) + 1 = Len(SelectSeq(key, LAMBDA ch : ch = "/"))
                 /\ Cardinality(below)
                      = Cardinality({k \in DOMAIN fs :
                                       HasPrefix(k, key \o Slash)})

\* C31: Dump is deterministic: instances that hold the same mutable files
\* and the same registered prefixes, however many, produce the same output;
\* in it siblings are in alphabetical order and each directory line is
\* followed at once by the lines of its subtree; an empty memory instance
\* yields the root marker alone.
C31_DumpIsDeterministic ==
    [][ (last'.op = "Dump" /\ last'.writer = Buffer) =>
          LET i == last'.inst
              t == TreeLines(last'.ret, 2)
          IN  /\ \A j \in Instances :
                    (FsOf(j) = FsOf(i) /\ BundledOf(j) = BundledOf(i))
                       => DumpOutputs(j) = {last'.ret}
              /\ SiblingsSorted(t)
              /\ SubtreeFollows(t, FsOf(i))
              /\ (FsOf(i) = NewFs /\ BundledOf(i) = NewBundledManager)
                    => last'.ret = <<RootMarker>> ]_vars

\* What holds: the part of the output for the mutable store is the same in
\* every Dump of the same files, sorted and nested as the claim says, and
\* with at most one registered prefix so is the whole output.
C31_TreeIsDeterministic ==
    [][ (last'.op = "Dump" /\ last'.writer = Buffer) =>
          LET i == last'.inst
              t == TreeLines(last'.ret, 2)
          IN  /\ \A j \in Instances : FsOf(j) = FsOf(i) =>
                    \A out \in DumpOutputs(j) : TreeLines(out, 2) = t
              /\ Cardinality(DOMAIN BundledOf(i)) <= 1
                    => DumpOutputs(i) = {last'.ret}
              /\ SiblingsSorted(t)
              /\ SubtreeFollows(t, FsOf(i))
              /\ (FsOf(i) = NewFs /\ BundledOf(i) = NewBundledManager)
                    => last'.ret = <<RootMarker>> ]_vars

\* Two Dumps of one instance with the prefixes x and y registered can differ.
C31_TwoOutputs ==
    /\ last.op = "Dump"
    /\ last.writer = Buffer
    /\ Cardinality(DumpOutputs(last.inst)) > 1
    /\ DOMAIN BundledOf(last.inst) = {pX \o Sentinel, pY \o Sentinel}

(***************************************************************************)
(* C32                                                                     *)
(***************************************************************************)

\* Where the round trip through directory d into t leaves the entry key of
\* the saved store: t joined with the path of key relative to the root.
RoundImage(t, key) == Join(Slash, Join(t, Rel(Slash, key).path))

\* Store g holds under t what store f holds, and nothing else: each entry
\* of f, directory or file with its bytes, is in g at its image, and every
\* entry of g is such an image or a directory on the way to t.
SameTreeUnder(f, g, t) ==
    /\ \A key \in DOMAIN f : EntryAt(g, RoundImage(t, key)) = EntryAt(f, key)
    /\ \A key \in DOMAIN g :
          \/ \E from \in DOMAIN f : key = RoundImage(t, from)
          \/ g[key].dir /\ (key = Slash \/ HasPrefix(Join(Slash, t), key \o Slash))

\* C32: when SaveToDisk("/", d) into an empty directory d has succeeded and
\* an empty instance then calls LoadFromDisk(d, t), the call succeeds and
\* the instance holds under t the files and directories that were saved,
\* with the same bytes, and no others.
C32_DiskRoundTrip ==
    [][ ( /\ last.op = "SaveToDisk"
          /\ last.path = Slash
          /\ last.err = ErrNil
          /\ last'.op = "LoadFromDisk"
          /\ OsPath(last'.path) = OsPath(last.dst)
          /\ FsOf(last'.inst) = NewFs )
        => /\ last'.err = ErrNil
           /\ SameTreeUnder(FsOf(last.inst), FsAfter(last'.inst), last'.dst) ]_vars

\* The files /a and /d/a were saved to the directory d and loaded from /d
\* into /d/a of the empty instance, which now holds /d/a/a and /d/a/d/a.
C32_Witness ==
    /\ last.op = "LoadFromDisk"
    /\ last.path = pD
    /\ last.dst = pDA
    /\ last.err = ErrNil
    /\ pDA \in DOMAIN FsOf(1)
    /\ EntryAt(FsOf(2), pDA \o pA) = EntryAt(FsOf(1), pA)
    /\ EntryAt(FsOf(2), pDA \o pDA) = EntryAt(FsOf(1), pDA)
    /\ EntryAt(fss[OsId], pD \o pDA) = EntryAt(FsOf(1), pDA)

(***************************************************************************)
(* C33                                                                     *)
(***************************************************************************)

\* The paths a search is compared against: the names of the mutable store
\* and the URLs of the entries of the bundles x and y.
FindProbes(i) ==
    DOMAIN FsOf(i)
    \cup {key \o name : key \in {pX \o Sentinel, pY \o Sentinel},
                        name \in {<<"a">>, <<"l">>, <<"l", "/", "a">>}}

\* Path p names a file through instance i: Stat succeeds, whatever bundle the
\* path resolves to, and reports no directory.
IsFileOf(i, p) ==
    \A r \in GetBundledFS(BundledOf(i), p) :
        LET st == VfsStat(BundledOf(i), FsOf(i), p, r)
        IN  st.err = ErrNil /\ ~st.isDir

\* The root of a search as a name: the cleaned absolute name in the mutable
\* store, or the key of the bundle followed by the cleaned remainder.
FindRoot(i, root) ==
    LET r == WalkedLookup(BundledOf(i), root) IN
    IF r.ok THEN r.key \o (IF Clean(r.rest) = Dot THEN <<>> ELSE Clean(r.rest))
    ELSE StoreKey(normalizePath(BundledOf(i), root))

\* Path p is root or lies below it, at any depth.
UnderRoot(root, p) ==
    \/ p = root
    \/ HasPrefix(p, IF root # <<>> /\ root[Len(root)] = "/" THEN root
                    ELSE root \o Slash)

\* The files a search from root for pattern has to return.
Sought(i, root, pattern) ==
    {p \in FindProbes(i) : /\ IsFileOf(i, p)
                           /\ UnderRoot(FindRoot(i, root), p)
                           /\ Match(pattern, Base(p))}

\* C33: FindFiles(root, pattern) returns exactly the non-directory paths at
\* any depth under root whose base name matches pattern: no directory, no
\* matching file missing, each path once.
C33_FindFilesIsExact ==
    [][ last'.op = "FindFiles" =>
          /\ Elems(last'.ret) = Sought(last'.inst, last'.path, last'.dst)
          /\ NoDuplicates(last'.ret) ]_vars

\* What holds: a search that returns nil returns exactly those paths, and a
\* search that returns an error returns none; it returns an error only for
\* a root that Exists denies.
C33_ExactWhenWalked ==
    [][ last'.op = "FindFiles" =>
          /\ NoDuplicates(last'.ret)
          /\ last'.err = ErrNil =>
                Elems(last'.ret) = Sought(last'.inst, last'.path, last'.dst)
          /\ last'.err # ErrNil =>
                /\ last'.ret = <<>>
                /\ \A r \in GetBundledFS(BundledOf(last'.inst), last'.path) :
                      ~VfsExists(BundledOf(last'.inst), FsOf(last'.inst),
                                 last'.path, r) ]_vars

\* FindFiles("x://", "*") returned an error and no path, with the files
\* x://a and x://l/a in the bundle.
C33_BundleRootNotWalked ==
    /\ last.op = "FindFiles"
    /\ last.path = pX \o Sentinel
    /\ last.dst = <<"*">>
    /\ last.err # ErrNil
    /\ last.ret = <<>>
    /\ IsFileOf(last.inst, pX \o Sentinel \o <<"a">>)

\* FindFiles("d", "a") returned /d/a alone, with a file /a in the store.
C33_FoundBelow ==
    /\ last.op = "FindFiles"
    /\ last.path = <<"d">>
    /\ last.dst = <<"a">>
    /\ last.ret = <<pDA>>
    /\ IsFileOf(last.inst, pA)

(***************************************************************************)
(* C34                                                                     *)
(***************************************************************************)

\* A Move of instance i between two paths that are not bundled has just
\* returned nil.
C34_MovedWithoutError ==
    /\ last'.op = "Move"
    /\ last'.err = ErrNil
    /\ ~IsBundledPath(BundledOf(last'.inst), last'.path)
    /\ ~IsBundledPath(BundledOf(last'.inst), last'.dst)

\* ReadFile of dst after the step returns the bytes ReadFile of src returned
\* before it.
C34_DstReadsWhatSrcHeld ==
    /\ ReadFileAfter(last'.inst, last'.dst) = ReadFileOf(last'.inst, last'.path)
    /\ \A rd \in ReadFileAfter(last'.inst, last'.dst) : rd.err = ErrNil

\* C34: whenever Move(src, dst) returns without error, reading dst
\* afterwards returns the bytes that src held before the call, for every
\* pair of non-bundled paths, also when both normalise to the same path.
C34_MoveKeepsTheBytes ==
    [][C34_MovedWithoutError => C34_DstReadsWhatSrcHeld]_vars

\* What holds: the same, for the pairs that name different entries of the
\* store.
C34_MoveKeepsTheBytesApart ==
    [][ ( /\ C34_MovedWithoutError
          /\ StoreKey(normalizePath(BundledOf(last'.inst), last'.path))
               # StoreKey(normalizePath(BundledOf(last'.inst), last'.dst)) )
        => C34_DstReadsWhatSrcHeld ]_vars

\* Move("/a", "a") returned nil and the file is gone.
C34_MovedOntoItself ==
    /\ last.op = "Move"
    /\ last.path = pA
    /\ last.dst = pRelA
    /\ last.err = ErrNil
    /\ pA \notin DOMAIN FsOf(last.inst)

\* Move("/d/a", "a") returned nil and /a holds bytes.
C34_MovedApart ==
    /\ last.op = "Move"
    /\ last.path = pDA
    /\ last.dst = pRelA
    /\ last.err = ErrNil
    /\ pA \in DOMAIN FsOf(last.inst)
    /\ pDA \notin DOMAIN FsOf(last.inst)

(***************************************************************************)
(* C35                                                                     *)
(***************************************************************************)

\* The clone a Clone step has just made.
NewClone == Len(insts')

\* Exists and IsDir of a path that is not bundled, in a registry and a store.
ExistsIn(bundled, fs, p) == VfsExists(bundled, fs, p, NotFound)

IsDirIn(bundled, fs, p) == VfsIsDir(bundled, fs, p, NotFound)

\* Path p names, in the store of instance i, the root, a file, or a
\* directory with a file somewhere below it.
HoldsAFile(i, p) ==
    LET key == StoreKey(normalizePath(BundledOf(i), p)) IN
    \/ key = Slash
    \/ \E k \in DOMAIN FsOf(i) :
          ~FsOf(i)[k].dir /\ (k = key \/ HasPrefix(k, key \o Slash))

\* C35: Clone preserves the whole mutable namespace: for every path that is
\* not bundled, Exists and IsDir answer through the clone what they answer
\* through the original at the time of cloning, directories without files
\* included.
C35_ClonePreservesNamespace ==
    [][ last'.op = "Clone" =>
          \A p \in ProbePaths :
             ~IsBundledPath(BundledOf(last'.inst), p) =>
                /\ ExistsIn(BundledAfter(NewClone), FsAfter(NewClone), p)
                     = ExistsIn(BundledOf(last'.inst), FsOf(last'.inst), p)
                /\ IsDirIn(BundledAfter(NewClone), FsAfter(NewClone), p)
                     = IsDirIn(BundledOf(last'.inst), FsOf(last'.inst), p) ]_vars

\* C35, amended: Clone preserves the files and the directories that lead to
\* them, and nothing else: a path that is not bundled exists in the clone
\* when it exists in the original and names the root, a file, or a
\* directory with a file somewhere below it, and is a directory in the
\* clone when it is one of those and a directory in the original.
C35_ClonePreservesFiles ==
    [][ last'.op = "Clone" =>
          \A p \in ProbePaths :
             ~IsBundledPath(BundledOf(last'.inst), p) =>
                /\ ExistsIn(BundledAfter(NewClone), FsAfter(NewClone), p)
                     = ( /\ ExistsIn(BundledOf(last'.inst), FsOf(last'.inst), p)
                         /\ HoldsAFile(last'.inst, p) )
                /\ IsDirIn(BundledAfter(NewClone), FsAfter(NewClone), p)
                     = ( /\ IsDirIn(BundledOf(last'.inst), FsOf(last'.inst), p)
                         /\ HoldsAFile(last'.inst, p) ) ]_vars

\* An instance with a file and an empty directory /d was cloned: the clone
\* has the file and has no /d.
C35_Witness ==
    /\ last.op = "Clone"
    /\ pD \in DOMAIN FsOf(last.inst)
    /\ pD \notin DOMAIN FsOf(Len(insts))
    /\ \E k \in DOMAIN FsOf(Len(insts)) : ~FsOf(Len(insts))[k].dir
    /\ insts[Len(insts)].origin = last.inst

(***************************************************************************)
(* C36                                                                     *)
(***************************************************************************)

\* The remainders read through a bundle: names below the subdir and names
\* that climb out of it.
ConfinedRests == {<<"a">>, Dot, <<>>, <<"l">>, <<"l", "/", "a">>}

ClimbingRests ==
    {<<".", ".">>, <<".", ".", "/", "a">>, <<".", ".", "/", "l", "/", "a">>,
     <<"a", "/", ".", ".", "/", ".", ".", "/", "a">>}

\* The name full of an archive lies in subdir.
InSubdir(subdir, full) == full = subdir \/ HasPrefix(full, subdir \o Slash)

\* Reading rest through bundle b reaches no entry of the archive outside the
\* subdir of b: the name ReadFile, Exists, IsDir and Stat hand the archive is
\* in the subdir, or is no entry of the archive; and what ReadFile returns
\* through the instance is the content of a file in the subdir.
Confined(i, key, rest) ==
    LET b    == BundledOf(i)[key]
        full == getFullPath(b, rest)
    IN  /\ BundledStat(b, rest).err = ErrNil => InSubdir(b.subdir, full)
        /\ \A rd \in ReadFileOf(i, key \o rest) :
              rd.err = ErrNil =>
                 \E n \in DOMAIN ArchiveFiles(b.embedFS) :
                    InSubdir(b.subdir, n) /\ rd.data = ArchiveFiles(b.embedFS)[n]

\* C36: for a bundle registered with a non-empty subdir, no read of a path
\* prefix://rest, with or without ".." segments in rest, reaches an entry of
\* the archive outside the subdir.
C36_SubdirConfinement ==
    \A i \in Instances : \A key \in DOMAIN BundledOf(i) :
        BundledOf(i)[key].subdir # <<>> =>
           \A rest \in ConfinedRests \cup ClimbingRests : Confined(i, key, rest)

\* What holds: the same for the remainders without ".." segments.
C36_ConfinedWithoutDotDot ==
    \A i \in Instances : \A key \in DOMAIN BundledOf(i) :
        BundledOf(i)[key].subdir # <<>> =>
           \A rest \in ConfinedRests : Confined(i, key, rest)

\* With y registered under the subdir l of an archive, ReadFile("y://../a")
\* returns the file a of the root of the archive, and ReadFile("y://a") the
\* file l/a.
C36_ReadOutside ==
    /\ pY \o Sentinel \in DOMAIN BundledOf(1)
    /\ BundledOf(1)[pY \o Sentinel].subdir = subL
    /\ ReadFileOf(1, pY \o Sentinel \o <<".", ".", "/", "a">>)
          = {[data |-> ArchiveFiles("A")[<<"a">>], err |-> ErrNil]}
    /\ ReadFileOf(1, pY \o Sentinel \o <<"a">>)
          = {[data |-> ArchiveFiles("A")[<<"l", "/", "a">>], err |-> ErrNil]}

(***************************************************************************)
(* C37                                                                     *)
(***************************************************************************)

\* The paths relative to the subdir of bundle b that name the entry full of
\* its archive: "." or nothing for the subdir itself.
SubdirRelative(b, full) ==
    IF b.subdir = <<>> THEN {full}
    ELSE IF full = b.subdir THEN {Dot, <<>>}
    ELSE {TrimPrefix(full, b.subdir \o Slash)}

\* The url passed to walkFn for the entry full of the archive of bundle b
\* has the form prefix://path, and Stat and ReadFile of it through instance
\* i resolve to that entry of that bundle, whatever GetBundledFS returns.
RoundTrips(i, b, full, url) ==
    /\ \E rel \in SubdirRelative(b, full) : url = b.prefix \o Sentinel \o rel
    /\ \A r \in GetBundledFS(BundledOf(i), url) :
          /\ r.ok
          /\ BundledOf(i)[r.key] = b
          /\ getFullPath(b, r.rest) = full
          /\ VfsStat(BundledOf(i), FsOf(i), url, r).err = ErrNil

\* The walk of a bundle that was just made: the bundle, and the entries of
\* the archive it visited, in order.
WalkedBundles ==
    {r \in GetBundledFS(BundledOf(last'.inst), last'.path) :
        r.ok /\ VfsWalk(BundledOf(last'.inst), FsOf(last'.inst),
                        last'.path, r).visited = last'.ret}

WalkedEntries(r) ==
    EmbedWalkFrom(BundledOf(last'.inst)[r.key].embedFS,
                  getFullPath(BundledOf(last'.inst)[r.key], r.rest))

\* C37: every path that Walk over a bundle passes to walkFn, the root of
\* the walk included, is prefix:// followed by the path relative to the
\* subdir, and Stat and ReadFile of that path on the same instance resolve
\* to the entry of the archive the walk visited.
C37_WalkRoundTrip ==
    [][ (last'.op = "Walk" /\ last'.err = ErrNil) =>
          \A r \in WalkedBundles :
             \A k \in 1..Len(last'.ret) :
                RoundTrips(last'.inst, BundledOf(last'.inst)[r.key],
                           WalkedEntries(r)[k], last'.ret[k]) ]_vars

\* What holds: the same for every entry but the subdir itself, in a registry
\* where no key is a prefix of another.
C37_RoundTripBelowSubdir ==
    [][ (last'.op = "Walk" /\ last'.err = ErrNil
         /\ ~KeysOverlap(BundledOf(last'.inst))) =>
          \A r \in WalkedBundles :
             \A k \in 1..Len(last'.ret) :
                WalkedEntries(r)[k] = BundledOf(last'.inst)[r.key].subdir
                \/ RoundTrips(last'.inst, BundledOf(last'.inst)[r.key],
                              WalkedEntries(r)[k], last'.ret[k]) ]_vars

\* Walk("y://") over the bundle y of subdir l passed y://l for the subdir
\* and y://a for the file l/a; nothing is at y://l.
C37_RootNamedAsEntry ==
    /\ last.op = "Walk"
    /\ last.path = pY \o Sentinel
    /\ last.ret = <<pY \o Sentinel \o subL, pY \o Sentinel \o <<"a">> >>
    /\ \A r \in GetBundledFS(BundledOf(1), pY \o Sentinel \o subL) :
          VfsStat(BundledOf(1), FsOf(1), pY \o Sentinel \o subL, r).err # ErrNil

(***************************************************************************)
(* C38: no callback after its watch was stopped                            *)
(***************************************************************************)

\* Stopping: the disk instance of InitEvents with watches that are
\* registered and stopped from outside the event loop, writes and their
\* native events, and callbacks that return.
NextStop ==
    \/ \E i \in Instances, p \in {Slash, pD} : Watch(i, p)
    \/ \E i \in Instances, p \in {Slash, pD} : StopWatch(i, p)
    \/ \E i \in Instances : StopAllWatches(i)
    \/ \E i \in Instances, f \in EventFiles : WriteFile(i, f, 1)
    \/ \E i \in Instances : LoopEvent(i)
    \/ \E i \in Watchers : \E c \in WmOf(i).calls :
          GoAction(i, c, <<"return">>)

SpecStop == InitEvents /\ [][NextStop]_vars

\* The invocations whose callback is called in the step.
Called(w) ==
    {c \in wms[w].calls : c.pc = "spawned" /\ c \notin wms'[w].calls}

\* C38: once StopWatch(p) or StopAllWatches has returned, the callback that
\* was registered under p is not invoked again, also not for a native event
\* handleEvent had matched before the stop: whenever a callback is called,
\* the pattern it was matched under is still stored (no step of these runs
\* but a stop that returned takes a pattern out of the map).
C38_NoCallbackAfterStop ==
    [][\A w \in DOMAIN wms :
          \A c \in Called(w) : c.pattern \in wms[w].watches]_vars

\* handleEvent and the stops exclude each other on mu, so that no goroutine
\* is started for a pattern after its stop returned: each invocation that
\* starts is for a pattern stored in the map at that moment.
C38_MatchedWhileStored ==
    [][\A w \in DOMAIN wms :
          \A c \in wms'[w].calls \ wms[w].calls :
              c.pc = "spawned" => c.pattern \in wms[w].watches]_vars

\* A goroutine handleEvent started for a pattern has yet to call the
\* callback, and the watch of the pattern was stopped in between.
C38_StoppedBeforeTheCall ==
    \E w \in DOMAIN wms :
        \E c \in wms[w].calls :
            /\ c.pc = "spawned"
            /\ c.pattern \notin wms[w].watches
            /\ last.op \in {"StopWatch", "StopAllWatches"}
            /\ last.err = ErrNil

(***************************************************************************)
(* C39: stored associations and native registrations                       *)
(***************************************************************************)

\* Every pattern of the map of wm has its disk path registered with the
\* fsnotify watcher.
Registered(wm) ==
    \A p \in wm.watches : WatchDiskPath(wm.rootPath, p) \in wm.native

\* C39: while the watch subsystem is active, every stored association has
\* its disk path registered with the native watcher, after any sequence of
\* Watch, StopWatch and StopAllWatches, also when distinct patterns name the
\* same disk path.
C39_StoredIsRegistered ==
    \A w \in DOMAIN wms : ~wms[w].closed => Registered(wms[w])

\* No step but a StopWatch takes the native registration from a stored
\* association of a watch manager that stays active.
C39_OnlyStopWatchBreaks ==
    [][\A w \in DOMAIN wms :
          (/\ Registered(wms[w])
           /\ ~wms'[w].closed
           /\ last'.op # "StopWatch")
          => Registered(wms'[w])]_vars

\* StopWatch of one of two patterns of the same disk path has returned: the
\* other is stored still, and its disk path is registered no more.
C39_SharedDiskPathStopped ==
    /\ last.op = "StopWatch"
    /\ last.err = ErrNil
    /\ OwnsWatchManager(last.inst)
    /\ LET wm == WmOf(last.inst) IN
       /\ ~wm.closed
       /\ \E q \in wm.watches :
             /\ q # last.path
             /\ WatchDiskPath(wm.rootPath, q)
                   = WatchDiskPath(wm.rootPath, last.path)
             /\ WatchDiskPath(wm.rootPath, q) \notin wm.native

(***************************************************************************)
(* C40: WriteFile while another goroutine registers a bundle               *)
(***************************************************************************)

\* The positions of a WriteFile call between its steps: after its own
\* IsBundledPath found the path not bundled, and after normalizePath.
AtNormalizePath == "WriteFile.normalizePath"

AtAfero == "WriteFile.afero"

WriteFileRunning == last.op \in {AtNormalizePath, AtAfero}

\* VFS.WriteFile, its check: IsBundledPath under the read lock of the
\* registry.  A bundled path is refused at once.  In the runs of SpecRace
\* last is the frame of the goroutine that writes.
WriteFileCheck(i, filename, data) ==
    /\ Step
    /\ ~WriteFileRunning
    /\ last' = IF IsBundledPath(BundledOf(i), filename)
               THEN [Call("WriteFile", i) EXCEPT
                       !.path = filename, !.data = data, !.err = ErrReadOnly]
               ELSE [Call(AtNormalizePath, i) EXCEPT
                       !.path = filename, !.data = data]
    /\ UNCHANGED <<insts, fss, bms, wms>>

\* VFS.WriteFile, its normalizePath, which asks IsBundledPath again under a
\* read lock of its own; dst holds vfsPath.
WriteFileNormalize(i) ==
    /\ last.op = AtNormalizePath
    /\ last.inst = i
    /\ last' = [last EXCEPT !.op = AtAfero,
                            !.dst = normalizePath(BundledOf(i), last.path)]
    /\ UNCHANGED <<insts, fss, bms, wms, ops>>

\* VFS.WriteFile, its afero.MkdirAll and afero.WriteFile, and its return.
WriteFileStore(i) ==
    /\ last.op = AtAfero
    /\ last.inst = i
    /\ LET mk  == StoreMkdirAll(FsOf(i), Dir(last.dst))
           res == IF mk.err # ErrNil THEN mk
                  ELSE StoreWriteFile(mk.fs, last.dst, last.data)
       IN  /\ fss' = [fss EXCEPT ![insts[i].fs] = res.fs]
           /\ last' = [last EXCEPT !.op = "WriteFile", !.dst = <<>>,
                                   !.err = res.err]
    /\ UNCHANGED <<insts, bms, wms, ops>>

\* VFS.RegisterBundled called by another goroutine, at any moment: Register
\* takes the write lock of the registry, which no step of WriteFile holds
\* between its steps.
RegisterConcurrently(i, prefix, embedFS, subdir) ==
    /\ bms' = [bms EXCEPT ![insts[i].bundledManager] =
                  Register(@, prefix, embedFS, subdir)]
    /\ UNCHANGED <<insts, fss, wms, last, ops>>

RacePaths == {pXA, pRelA, pDA}

\* The race: a memory instance, a goroutine that writes files and another
\* that registers bundles.
NextRace ==
    \/ \E i \in Instances, p \in RacePaths, d \in Data : WriteFileCheck(i, p, d)
    \/ \E i \in Instances : WriteFileNormalize(i)
    \/ \E i \in Instances : WriteFileStore(i)
    \/ \E i \in Instances, p \in {pX, pY} :
          RegisterConcurrently(i, p, "A", <<>>)

SpecRace == Init /\ [][NextRace]_vars

\* The absolute normalised form of a path.
Absolute(path) == IF IsAbs(path) THEN path ELSE Join(Slash, path)

\* A WriteFile returns in the step.
WriteFileReturns ==
    /\ last'.op = "WriteFile"
    /\ last.op \in {AtAfero, "WriteFile", "New"}
    /\ last' # last

\* What the store of the instance gained or changed in the step.
Touched(i) ==
    {k \in DOMAIN fss'[insts[i].fs] :
        k \notin DOMAIN FsOf(i) \/ fss'[insts[i].fs][k] # FsOf(i)[k]}

\* C40: under every interleaving of WriteFile(p, b) with a concurrent
\* RegisterBundled, WriteFile either returns the read-only error without
\* touching the store, or stores b under the absolute normalised form of p;
\* it never stores a file under a key that is not absolute or that is
\* prefixed.
C40_WriteFileUnderRegister ==
    [][WriteFileReturns =>
          LET i   == last'.inst
              key == StoreKey(Absolute(last'.path))
          IN  /\ last'.err = ErrReadOnly => fss' = fss
              /\ last'.err = ErrNil =>
                    /\ key \in DOMAIN fss'[insts[i].fs]
                    /\ fss'[insts[i].fs][key]
                          = [dir |-> FALSE, data |-> last'.data]
              /\ Touched(i) \subseteq {key} \cup Ancestors(key)
              /\ \A k \in Touched(i) : IsAbs(k)]_vars

\* WriteFile keeps to the claim whenever the path is not bundled when
\* WriteFile returns, and so was not at its normalizePath: Register only
\* adds to the registry.
C40_RightUnlessRegisteredMeanwhile ==
    [][(WriteFileReturns /\ ~IsBundledPath(BundledOf(last'.inst), last'.path))
          => LET i   == last'.inst
                 key == StoreKey(Absolute(last'.path))
             IN  /\ last'.err # ErrReadOnly
                 /\ last'.err = ErrNil =>
                       /\ key \in DOMAIN fss'[insts[i].fs]
                       /\ fss'[insts[i].fs][key]
                             = [dir |-> FALSE, data |-> last'.data]
                 /\ Touched(i) \subseteq {key} \cup Ancestors(key)
                 /\ \A k \in Touched(i) : IsAbs(k)]_vars

\* The prefix was registered between the check of WriteFile and its
\* normalizePath: the file is in the store under a key that is not absolute.
C40_StoredUnderPrefixedKey ==
    /\ last.op = "WriteFile"
    /\ last.err = ErrNil
    /\ \E k \in DOMAIN FsOf(last.inst) :
          /\ ~IsAbs(k)
          /\ ~FsOf(last.inst)[k].dir

=============================================================================
